---------------------------- MODULE Spec2Model ----------------------------
(***************************************************************************)
(* A model of pullquote (src/pullquote.go): the marker-comment scanner,    *)
(* the document reader, the pull-quote resolver and the rewriter.          *)
(*                                                                         *)
(* A document and a source file are sequences of bytes; a byte is a        *)
(* one-character string.  Offsets are 0-based as in the Go code, so        *)
(* data[a:b] is Slice(data, a, b).                                         *)
(***************************************************************************)
EXTENDS Integers, Sequences, FiniteSets, TLC

VARIABLES
    pc,      \* position of the modelled run
    doc,     \* bytes of the document being read
    sc,      \* the bufio.Scanner under htmlCommentScanner plus html.start/html.end
    tokens,  \* comments yielded so far: [start, end, text]
    file,    \* expandSrcPullQuotes: bytes of the opened source file
    batch,   \* expandSrcPullQuotes: its argument pqs
    lsc,     \* expandSrcPullQuotes: the newlineIncludingScanner over file
    states,  \* expandSrcPullQuotes: its local states
    found,   \* expandSrcPullQuotes: what it returned, [err, results]
    fs,      \* the source files on disk: path -> bytes
    quotes,  \* processFile: pqs, the pull quotes readPullQuotes returned
    expanded,\* processFile: what expandPullQuotes returned
    opened,  \* the paths expandSrcPullQuotes handed to os.Open, in order
    out,     \* bytes of the temp file applyPullQuotes wrote
    tempFn,  \* processFile: the temp file name it returned ("": none)
    perr,    \* processFile: the error it returned (nil: none)
    exits,   \* per finished invocation: [err, updated] as processFiles reports
    checkMode, \* processFiles: its argument
    docState,  \* per document path: what processFile finds there
    ctxDone,   \* the context of run is cancelled
    fns,       \* the paths the file channel still delivers before it closes
    fnsNil,    \* processFiles: its fns is nil
    workers,   \* per document path: the worker goroutine, [st, res]
    resultCh,  \* processFiles: the buffer of resultCh
    inFlight,  \* processFiles: inFlight
    err,       \* processFiles: err
    errFn,     \* processFiles: errFn
    otherErrs, \* processFiles: otherErrs
    moves,     \* processFiles: moves
    ret,       \* what processFiles returned
    renamed,   \* the documents os.Rename has replaced
    lctxDone,  \* listFiles: its context (a child of run's) is cancelled
    args,      \* listFiles: the paths of fns not yet submitted
    stdin,     \* the lines the reader r still holds
    tree,      \* the .md paths filepath.Walk has not visited yet
    scanner,   \* the goroutine scanning r: [pc, val]
    walker,    \* the goroutine walking the directory: [pc, val]
    merger,    \* the merging goroutine: [pc, val, from]
    seenPaths, \* the merger's seen
    scanned,   \* the channel scanned: "nil", "open" or "closed"
    walked,    \* the channel walked: "nil", "open" or "closed"
    merged,    \* the channel merged: [buf, cap, closed]
    errC       \* the channel errC: [buf, closed]

scanVars == <<doc, sc, tokens>>

srcVars == <<file, batch, lsc, states, found>>

pipeVars == <<fs, quotes, expanded, opened, out, tempFn, perr, exits>>

\* processFiles: the run's context, the file channel, the workers and the
\* locals of the main loop
filesVars == <<checkMode, docState, ctxDone, fns, fnsNil, workers, resultCh,
               inFlight, err, errFn, otherErrs, moves, ret, renamed>>

\* listFiles: its goroutines and channels
listVars == <<lctxDone, args, stdin, tree, scanner, walker, merger, seenPaths,
              scanned, walked, merged, errC>>

sysVars == <<filesVars, listVars>>

vars == <<pc, doc, sc, tokens, file, batch, lsc, states, found,
          fs, quotes, expanded, opened, out, tempFn, perr, exits, sysVars>>

-----------------------------------------------------------------------------
(* Byte strings *)

Min(a, b) == IF a < b THEN a ELSE b

\* data[a:b]
Slice(data, a, b) == SubSeq(data, a + 1, b)

\* bytes.HasPrefix(data[i:], pat)
HasPrefixAt(data, i, pat) ==
    /\ i + Len(pat) <= Len(data)
    /\ \A k \in 1..Len(pat) : data[i + k] = pat[k]

\* bytes.Index(data, pat): the first 0-based offset of pat in data, or -1
Index(data, pat) ==
    LET hits == {i \in 0..(Len(data) - Len(pat)) : HasPrefixAt(data, i, pat)}
    IN  IF hits = {} THEN -1 ELSE CHOOSE i \in hits : \A j \in hits : i <= j

\* bytes.LastIndex(data, pat)
LastIndex(data, pat) ==
    LET hits == {i \in 0..(Len(data) - Len(pat)) : HasPrefixAt(data, i, pat)}
    IN  IF hits = {} THEN -1 ELSE CHOOSE i \in hits : \A j \in hits : i >= j

RECURSIVE Flatten(_)
\* the concatenation of a sequence of byte strings
Flatten(ss) == IF ss = <<>> THEN <<>> ELSE Head(ss) \o Flatten(Tail(ss))

\* the element of a one-element set: Only({e(x) : x \in {a}}) is e(a) with a
\* evaluated once
Only(S) == CHOOSE x \in S : TRUE

\* every sequence over S of length at most n
SeqsUpTo(S, n) == UNION {[1..k -> S] : k \in 0..n}

\* the backtick byte, which a TLA+ string cannot hold
BT == "BT"

commentOpen  == <<"<", "!", "-", "-">>
commentClose == <<"-", "-", ">">>
tickFence    == <<"\n", BT, BT, BT>>
tildeFence   == <<"\n", "~", "~", "~">>

-----------------------------------------------------------------------------
(* htmlCommentScanner *)

\* detectCodeFence: <<start, end>> of the first fence in data, -1 when absent
detectCodeFence(data) ==
    LET tickStart  == Index(data, tickFence)
        tildeStart == Index(data, tildeFence)
        useTilde   == /\ tildeStart # -1
                      /\ (tickStart = -1 \/ tildeStart < tickStart)
        start      == IF useTilde THEN tildeStart ELSE tickStart
        delim      == IF useTilde THEN tildeFence ELSE tickFence
        end        == Index(Slice(data, start + Len(delim), Len(data)), delim)
    IN  IF tickStart = -1 /\ tildeStart = -1 THEN <<-1, -1>>
        ELSE IF end = -1 THEN <<start, -1>>
        ELSE <<start, start + end + Len(delim) * 2>>

\* detectComment: <<start, end>> of a comment in data
detectComment(data) ==
    LET end == Index(data, commentClose)
    IN  IF end > 0
        THEN <<LastIndex(Slice(data, 0, end), commentOpen), end + Len(commentClose)>>
        ELSE <<Index(data, commentOpen), -1>>

RECURSIVE htmlSplitFrom(_, _)
\* the split function of htmlCommentScanner from offset i of data on.
\* [advance, hasToken, token, track, err]: track is the offset in data that
\* the split function adds to html.end to set html.start, -1 when it leaves
\* html.start alone
htmlSplitFrom(data, i) ==
    LET cf      == detectCodeFence(Slice(data, i, Len(data)))
        cfStart == cf[1]
        cfEnd   == cf[2]
    IN  IF cfStart # -1 /\ cfEnd # -1
        THEN LET cm == detectComment(Slice(data, i, i + cfStart))
             IN  IF cm[1] # -1 /\ cm[2] # -1
                 THEN [advance |-> i + cm[2], hasToken |-> TRUE,
                       token |-> Slice(data, i + cm[1], i + cm[2]),
                       track |-> cm[1] + i, err |-> ""]
                 ELSE htmlSplitFrom(data, i + cfEnd)
        ELSE LET searchRange == IF cfStart # -1
                                THEN Slice(data, i, i + cfStart)
                                ELSE Slice(data, i, Len(data))
                 cm == detectComment(searchRange)
             IN  IF cm[1] # -1 /\ cm[2] # -1
                 THEN [advance |-> cm[2] + i, hasToken |-> TRUE,
                       token |-> Slice(data, cm[1] + i, cm[2] + i),
                       track |-> cm[1] + i, err |-> ""]
                 ELSE IF cfStart = -1
                 THEN [advance |-> Len(data), hasToken |-> FALSE,
                       token |-> <<>>, track |-> -1, err |-> ""]
                 ELSE [advance |-> i + cfStart, hasToken |-> FALSE,
                       token |-> <<>>, track |-> -1, err |-> ""]

htmlSplit(data) == htmlSplitFrom(data, 0)

-----------------------------------------------------------------------------
(* newlineIncludingScanner *)

\* the split function of newlineIncludingScanner
newlineSplit(data, atEOF) ==
    LET i == Index(data, <<"\n">>)
    IN  IF atEOF /\ Len(data) = 0
        THEN [advance |-> 0, hasToken |-> FALSE, token |-> <<>>,
              track |-> -1, err |-> ""]
        ELSE IF i >= 0
        THEN [advance |-> i + 1, hasToken |-> TRUE,
              token |-> Slice(data, 0, i + 1), track |-> -1, err |-> ""]
        ELSE IF atEOF
        THEN [advance |-> Len(data), hasToken |-> TRUE, token |-> data,
              track |-> -1, err |-> ""]
        ELSE [advance |-> 0, hasToken |-> FALSE, token |-> <<>>,
              track |-> -1, err |-> ""]

-----------------------------------------------------------------------------
(* tokenizingScanner *)

\* unicode.IsSpace for the bytes of the model
IsSpace(r) == r \in {" ", "\t", "\n", "\r"}

RECURSIVE unescapeFrom(_, _, _, _)
\* the loop of unescape from index i (1-based) on: the bytes kept.
\* quote is the open quote ("" for none)
unescapeFrom(buf, i, quote, escaped) ==
    IF i > Len(buf) THEN <<>>
    ELSE LET r == buf[i]
         IN  IF ~escaped /\ r = "\\"
             THEN unescapeFrom(buf, i + 1, quote, TRUE)
             ELSE IF ~escaped /\ quote # "" /\ r = quote
             THEN unescapeFrom(buf, i + 1, "", FALSE)
             ELSE IF ~escaped /\ quote = "" /\ r \in {"'", "\""}
             THEN unescapeFrom(buf, i + 1, r, FALSE)
             ELSE <<r>> \o unescapeFrom(buf, i + 1, quote, FALSE)

\* mutant of unescape: the bytes are left as written
unescape_Raw(buf) == buf

unescape(buf) == unescapeFrom(buf, 1, "", FALSE)

RECURSIVE skipSpaces(_, _)
\* the offset of the first byte of data at or after start that is no space
skipSpaces(data, start) ==
    IF start < Len(data) /\ IsSpace(data[start + 1])
    THEN skipSpaces(data, start + 1)
    ELSE start

errTokUnterminated == "unterminated token"

RECURSIVE tokenScanFrom(_, _, _, _, _, _)
\* the word loop of the tokenizer's split function at offset i, and what
\* follows it when the loop runs off the data
tokenScanFrom(data, atEOF, start, i, quote, escaped) ==
    IF i >= Len(data)
    THEN IF atEOF /\ Len(data) > start
         THEN IF quote # "" \/ escaped
              THEN [advance |-> Len(data), hasToken |-> TRUE,
                    token |-> Slice(data, start, Len(data)),
                    track |-> start, err |-> errTokUnterminated]
              ELSE [advance |-> Len(data), hasToken |-> TRUE,
                    token |-> unescape(Slice(data, start, Len(data))),
                    track |-> start, err |-> ""]
         ELSE [advance |-> start, hasToken |-> FALSE, token |-> <<>>,
               track |-> start, err |-> ""]
    ELSE LET r == data[i + 1]
         IN  IF escaped
             THEN tokenScanFrom(data, atEOF, start, i + 1, quote, FALSE)
             ELSE IF r = "\\"
             THEN tokenScanFrom(data, atEOF, start, i + 1, quote, TRUE)
             ELSE IF quote # ""
             THEN tokenScanFrom(data, atEOF, start, i + 1,
                                IF r = quote THEN "" ELSE quote, FALSE)
             ELSE IF r \in {"'", "\""}
             THEN tokenScanFrom(data, atEOF, start, i + 1, r, FALSE)
             ELSE IF r = "="
             THEN IF i = start
                  THEN [advance |-> i + 1, hasToken |-> TRUE,
                        token |-> Slice(data, start, i + 1),
                        track |-> start, err |-> ""]
                  ELSE [advance |-> i, hasToken |-> TRUE,
                        token |-> unescape(Slice(data, start, i)),
                        track |-> start, err |-> ""]
             ELSE IF IsSpace(r)
             THEN [advance |-> i, hasToken |-> TRUE,
                   token |-> unescape(Slice(data, start, i)),
                   track |-> start, err |-> ""]
             ELSE tokenScanFrom(data, atEOF, start, i + 1, quote, FALSE)

\* the split function of tokenizingScanner
tokenSplit(data, atEOF) ==
    LET start == skipSpaces(data, 0)
    IN  tokenScanFrom(data, atEOF, start, start, "", FALSE)

-----------------------------------------------------------------------------
(* bufio.Scanner, as the three scanners of the program use it *)

\* the split function of a scanner of the given kind
Split(kind, data, atEOF) ==
    CASE kind = "html" -> htmlSplit(data)
      [] kind = "line" -> newlineSplit(data, atEOF)
      [] kind = "tok"  -> tokenSplit(data, atEOF)

\* a fresh scanner: nothing buffered, nothing read, no error; start and end
\* are the fields of trackingScanner
newScanner == [bufStart |-> 0, bufEnd |-> 0, eof |-> FALSE, err |-> "",
               start |-> 0, end |-> 0]

RECURSIVE bufioScan(_, _, _)
\* One call of Scan() on the scanner s over the bytes d: the loop of
\* bufio.Scanner.Scan around the split function.  The reader hands over all
\* the bytes it has left on one Read and reports EOF on the next.
\* [s: the scanner after the call, ok: what Scan returned, text: Bytes()]
bufioScan(kind, d, s) == Only({
    LET atEOF == s.eof \/ s.err # ""
        s1    == [s EXCEPT !.bufStart = s.bufStart + r.advance,
                           !.end      = s.end + r.advance,
                           !.start    = IF r.track # -1
                                        THEN s.end + r.track ELSE s.start]
        read  == IF s.bufEnd < Len(d) THEN [s EXCEPT !.bufEnd = Len(d)]
                                      ELSE [s EXCEPT !.eof = TRUE]
        read1 == IF s1.bufEnd < Len(d) THEN [s1 EXCEPT !.bufEnd = Len(d)]
                                       ELSE [s1 EXCEPT !.eof = TRUE]
    IN  IF s.bufEnd > s.bufStart \/ atEOF
        THEN IF r.err # ""
             THEN [s |-> [s1 EXCEPT !.bufStart = s.bufStart, !.err = r.err],
                   ok |-> FALSE, text |-> <<>>]
             ELSE IF r.hasToken
             THEN [s |-> s1, ok |-> TRUE, text |-> r.token]
             ELSE IF atEOF
             THEN [s |-> s1, ok |-> FALSE, text |-> <<>>]
             ELSE bufioScan(kind, d, read1)
        ELSE bufioScan(kind, d, read)
    : r \in {Split(kind, Slice(d, s.bufStart, s.bufEnd), s.eof \/ s.err # "")}})

htmlScan(d, s) == bufioScan("html", d, s)

-----------------------------------------------------------------------------
(* Option keys, formats and the pullQuote struct *)

keyNoReformat   == <<"n", "o", "r", "e", "f", "o", "r", "m", "a", "t">>
keyGoPath       == <<"g", "o", "p", "a", "t", "h">>
keyIncludeGroup == <<"i", "n", "c", "l", "u", "d", "e", "g", "r", "o", "u", "p">>
keyJSONPath     == <<"j", "s", "o", "n", "p", "a", "t", "h">>
keySrc          == <<"s", "r", "c">>
keyStart        == <<"s", "t", "a", "r", "t">>
keyEnd          == <<"e", "n", "d">>
keyEndCount     == <<"e", "n", "d", "c", "o", "u", "n", "t">>
keyFmt          == <<"f", "m", "t">>
keyLang         == <<"l", "a", "n", "g">>

fmtCodeFence  == <<"c", "o", "d", "e", "f", "e", "n", "c", "e">>
fmtBlockQuote == <<"b", "l", "o", "c", "k", "q", "u", "o", "t", "e">>
fmtNone       == <<"n", "o", "n", "e">>
fmtExample    == <<"e", "x", "a", "m", "p", "l", "e">>

keysCommonOptional    == {keyFmt, keyLang}
keysGoQuoteValid      == {keyGoPath, keyNoReformat, keyIncludeGroup}
keysJSONQuoteValid    == {keyJSONPath, keyNoReformat}
keysPullQuoteOptional == {keyEndCount}
keysPullQuoteRequired == <<keySrc, keyStart, keyEnd>>
validFmts             == {fmtBlockQuote, fmtCodeFence, fmtExample, fmtNone}

\* the flag bits
noRealignTabs == "noRealignTabs"
includeGroup  == "includeGroup"

idxNoEnd == -1

\* a nil *regexp.Regexp
nilRegexp == "nil"

\* mutant of newPullQuote: every marker starts at offset 0
newPullQuote_AtZero(tt, startIdx) ==
    [originalTag |-> tt, quoteType |-> "", src |-> <<>>,
     start |-> nilRegexp, end |-> nilRegexp, endCount |-> 0,
     fmt |-> <<>>, lang |-> <<>>, objPath |-> <<>>, flags |-> {},
     startIdx |-> 0, endIdx |-> idxNoEnd]

\* the zero pullQuote with the fields readPullQuotes sets
newPullQuote(tt, startIdx) ==
    [originalTag |-> tt, quoteType |-> "", src |-> <<>>,
     start |-> nilRegexp, end |-> nilRegexp, endCount |-> 0,
     fmt |-> <<>>, lang |-> <<>>, objPath |-> <<>>, flags |-> {},
     startIdx |-> startIdx, endIdx |-> idxNoEnd]

\* no error
nil == <<>>

-----------------------------------------------------------------------------
(* builder.set, setOptions and validate *)

\* regexp.Compile on the patterns of the model: a pattern of literal bytes
\* compiles to itself, one that holds a lone "(" does not compile
regexpCompile(v) ==
    IF \E i \in 1..Len(v) : v[i] = "("
    THEN [re |-> nilRegexp, err |-> <<"missing closing )", v>>]
    ELSE [re |-> v, err |-> nil]

Digits == <<"0", "1", "2", "3", "4", "5", "6", "7", "8", "9">>

DigitValue(c) == (CHOOSE i \in 1..10 : Digits[i] = c) - 1

IsDigit(c) == \E i \in 1..10 : Digits[i] = c

RECURSIVE DecimalValue(_)
DecimalValue(v) ==
    IF v = <<>> THEN 0
    ELSE DecimalValue(SubSeq(v, 1, Len(v) - 1)) * 10 + DigitValue(v[Len(v)])

\* strconv.Atoi on short strings: an optional sign and decimal digits
Atoi(v) ==
    LET signed == v # <<>> /\ v[1] \in {"+", "-"}
        digs   == IF signed THEN Tail(v) ELSE v
    IN  IF digs = <<>> \/ \E i \in 1..Len(digs) : ~IsDigit(digs[i])
        THEN [n |-> 0, err |-> <<"invalid syntax", v>>]
        ELSE [n |-> IF signed /\ v[1] = "-" THEN 0 - DecimalValue(digs)
                    ELSE DecimalValue(digs),
              err |-> nil]

\* builder.vSetTest: the builder after the test
vSetTest(b, k, want, got) ==
    IF b.err = nil /\ want # got
    THEN [b EXCEPT !.err = IF want THEN <<"requires value", k>>
                           ELSE <<"does not take a value", k>>]
    ELSE b

\* builder.set: the builder [pq, err, seen] after set(k, v, vSet)
set(b, k, v, vSet) ==
    IF b.err # nil THEN b
    ELSE IF k \in b.seen THEN [b EXCEPT !.err = <<"already seen", k>>]
    ELSE LET b1 == [b EXCEPT !.seen = b.seen \cup {k}]
         IN  CASE k = keyIncludeGroup ->
                    [vSetTest(b1, k, FALSE, vSet) EXCEPT
                        !.pq.flags = b1.pq.flags \cup {includeGroup}]
               [] k = keyNoReformat ->
                    [vSetTest(b1, k, FALSE, vSet) EXCEPT
                        !.pq.flags = b1.pq.flags \cup {noRealignTabs}]
               [] k = keySrc ->
                    [vSetTest(b1, k, TRUE, vSet) EXCEPT !.pq.src = v]
               [] k = keyStart ->
                    LET b2 == vSetTest(b1, k, TRUE, vSet)
                        c  == regexpCompile(v)
                    IN  IF b2.err # nil THEN b2
                        ELSE [b2 EXCEPT !.pq.start = c.re,
                                        !.err = IF c.err # nil
                                                THEN <<"invalid start", v>>
                                                ELSE nil]
               [] k = keyEnd ->
                    LET b2 == vSetTest(b1, k, TRUE, vSet)
                        c  == regexpCompile(v)
                    IN  IF b2.err # nil THEN b2
                        ELSE [b2 EXCEPT !.pq.end = c.re,
                                        !.err = IF c.err # nil
                                                THEN <<"invalid end", v>>
                                                ELSE nil]
               [] k = keyEndCount ->
                    LET b2 == vSetTest(b1, k, TRUE, vSet)
                        c  == Atoi(v)
                    IN  IF b2.err # nil THEN b2
                        ELSE [b2 EXCEPT !.pq.endCount = c.n,
                                        !.err = IF c.err # nil
                                                THEN <<"invalid endcount", v>>
                                                ELSE nil]
               [] k = keyFmt      -> [b1 EXCEPT !.pq.fmt = v]
               [] k = keyLang     -> [b1 EXCEPT !.pq.lang = v]
               [] k = keyGoPath   -> [b1 EXCEPT !.pq.objPath = v,
                                                !.pq.quoteType = "go"]
               [] k = keyJSONPath -> [b1 EXCEPT !.pq.objPath = v,
                                                !.pq.quoteType = "json"]
               [] OTHER ->
                    [b1 EXCEPT !.err = IF vSet THEN <<"unknown key with value", k, v>>
                                       ELSE <<"unknown key", k>>]

\* mutant of scanErr: the tokenizer's error is not looked at
scanErr_None(s) == nil

\* the error toks.Err() reports: none at the end of the input
scanErr(s) == IF s.err = "" THEN nil ELSE <<s.err>>

RECURSIVE setOptionsLoop(_, _, _, _)
\* "for toks.Scan() && b.err == nil" of setOptions over the attribute text
\* d, and the code after the loop: the builder at the end
setOptionsLoop(d, s, b0, window) == Only({
        IF r.ok /\ b.err = nil
        THEN LET w == Append(window, r.text)
             IN  IF Len(w) = 2
                 THEN IF w[2] # <<"=">>
                      THEN setOptionsLoop(d, r.s, set(b, w[1], <<>>, FALSE), <<w[2]>>)
                      ELSE setOptionsLoop(d, r.s, b, w)
                 ELSE IF Len(w) = 3
                 THEN setOptionsLoop(d, r.s, set(b, w[1], w[3], TRUE), <<>>)
                 ELSE setOptionsLoop(d, r.s, b, w)
        ELSE LET b1 == IF b.err = nil THEN [b EXCEPT !.err = scanErr(r.s)] ELSE b
             IN  IF Len(window) = 1 THEN set(b1, window[1], <<>>, FALSE)
                 ELSE IF Len(window) = 2
                 THEN set(set(b1, window[1], <<>>, FALSE), window[2], <<>>, FALSE)
                 ELSE b1
    : r \in {bufioScan("tok", d, s)}, b \in {b0}})

\* setOptions(pq, toks, tagType): toks is the scanner s over the text d
setOptions(pq, d, s, tagType) ==
    setOptionsLoop(d, s, [pq |-> pq, err |-> nil, seen |-> {}],
                   CASE tagType = "go"   -> <<keyGoPath, <<"=">>>>
                     [] tagType = "json" -> <<keyJSONPath, <<"=">>>>
                     [] OTHER            -> <<>>)

\* no key is ever left over
checkRemaining_None(m, kind) == nil

\* checkRemaining
checkRemaining(m, kind) == IF m = {} THEN nil ELSE <<kind, "invalid keys", m>>

RECURSIVE firstUnset_Last(_, _)
\* the last required key that was not seen
firstUnset_Last(keys, seen) ==
    IF keys = <<>> THEN <<>>
    ELSE IF keys[Len(keys)] \notin seen THEN keys[Len(keys)]
    ELSE firstUnset_Last(SubSeq(keys, 1, Len(keys) - 1), seen)

\* the first required key that was not seen (<<>>: none is missing)
RECURSIVE firstUnset(_, _)
firstUnset(keys, seen) ==
    IF keys = <<>> THEN <<>>
    ELSE IF Head(keys) \notin seen THEN Head(keys)
    ELSE firstUnset(Tail(keys), seen)

\* mutant of goDefaultFmt: the word Example anywhere in the object path
goDefaultFmt_Anywhere(objPath) ==
    IF Index(objPath, <<"E", "x", "a", "m", "p", "l", "e">>) # -1
    THEN fmtExample ELSE fmtCodeFence

\* the format validate gives a Go marker that has none
goDefaultFmt(objPath) ==
    IF Index(objPath, <<"#", "E", "x", "a", "m", "p", "l", "e">>) # -1
    THEN fmtExample ELSE fmtCodeFence

\* validate(pq, seen): [pq, err]
validate(pq, seen) ==
    LET seen1 == seen \ keysCommonOptional
    IN  IF pq.fmt # <<>> /\ pq.fmt \notin validFmts
        THEN [pq |-> pq, err |-> <<"fmt must be example, codefence, blockquote, or none">>]
        ELSE IF pq.quoteType = "json"
        THEN [pq  |-> IF pq.fmt = <<>>
                      THEN [pq EXCEPT !.fmt = fmtCodeFence, !.lang = <<"j", "s", "o", "n">>]
                      ELSE pq,
              err |-> checkRemaining((seen1 \ keysJSONQuoteValid) \ {keyJSONPath}, "jsonquote")]
        ELSE IF pq.quoteType = "go"
        THEN [pq  |-> IF pq.fmt = <<>>
                      THEN [pq EXCEPT !.fmt = goDefaultFmt(pq.objPath),
                                      !.lang = <<"g", "o">>]
                      ELSE pq,
              err |-> checkRemaining(seen1 \ keysGoQuoteValid, "goquote")]
        ELSE LET missing == firstUnset(keysPullQuoteRequired, seen1 \ keysPullQuoteOptional)
             IN  IF missing # <<>>
                 THEN [pq |-> pq, err |-> <<"cannot be unset", missing>>]
                 ELSE [pq  |-> pq,
                       err |-> checkRemaining(
                                   (seen1 \ keysPullQuoteOptional)
                                       \ {keysPullQuoteRequired[i] : i \in 1..3},
                                   "pullquote")]

-----------------------------------------------------------------------------
(* expandSrcPullQuotes *)

\* regexp.MatchString for a pattern without metacharacters: the pattern
\* occurs in txt
MatchString(pat, txt) == Index(txt, pat) # -1

RECURSIVE TrimRight(_, _)
\* strings.TrimRight(s, cutset)
TrimRight(s, cutset) ==
    IF s # <<>> /\ s[Len(s)] \in cutset
    THEN TrimRight(SubSeq(s, 1, Len(s) - 1), cutset)
    ELSE s

\* mutant of endCountRem: the end count of the marker is ignored
endCountRem_Ignored(pq) == 1

\* endCountRem of one pull quote
endCountRem(pq) == IF pq.endCount # 0 THEN pq.endCount ELSE 1

\* the states slice built from pqs: Buffer and result start nil
newStates(pqs) ==
    [i \in 1..Len(pqs) |->
        [pq |-> pqs[i], hasBuffer |-> FALSE, buffer |-> <<>>,
         hasResult |-> FALSE, result |-> <<>>,
         endMatchRemaining |-> endCountRem(pqs[i])]]

\* mutant of stepState: the line that matches start is buffered but not
\* tested against end
stepState_StartNotEnd(s, txt) ==
    IF s.hasResult THEN s
    ELSE IF ~s.hasBuffer
    THEN IF MatchString(s.pq.start, txt)
         THEN [s EXCEPT !.hasBuffer = TRUE, !.buffer = txt]
         ELSE s
    ELSE LET buf == s.buffer \o txt
             rem == s.endMatchRemaining - 1
         IN  IF MatchString(s.pq.end, txt)
             THEN IF rem = 0
                  THEN [s EXCEPT !.hasResult = TRUE,
                                 !.result = TrimRight(buf, {"\r", "\n"}),
                                 !.hasBuffer = FALSE, !.buffer = <<>>,
                                 !.endMatchRemaining = rem]
                  ELSE [s EXCEPT !.buffer = buf, !.endMatchRemaining = rem]
             ELSE [s EXCEPT !.buffer = buf]

\* the body of "for _, s := range states" for one state and one line txt
stepState(s, txt) ==
    IF s.hasResult THEN s
    ELSE IF ~s.hasBuffer /\ ~MatchString(s.pq.start, txt) THEN s
    ELSE LET buf == s.buffer \o txt
             rem == s.endMatchRemaining - 1
         IN  IF MatchString(s.pq.end, txt)
             THEN IF rem = 0
                  THEN [s EXCEPT !.hasResult = TRUE,
                                 !.result = TrimRight(buf, {"\r", "\n"}),
                                 !.hasBuffer = FALSE, !.buffer = <<>>,
                                 !.endMatchRemaining = rem]
                  ELSE [s EXCEPT !.hasBuffer = TRUE, !.buffer = buf,
                                 !.endMatchRemaining = rem]
             ELSE [s EXCEPT !.hasBuffer = TRUE, !.buffer = buf]

\* mutant of stepStates: a line is consumed by the first state that is still
\* unresolved, and the states after it do not see it
stepStates_FirstOnly(ss, txt) ==
    LET open == {i \in 1..Len(ss) : ~ss[i].hasResult}
        f    == IF open = {} THEN 0
                ELSE CHOOSE i \in open : \A j \in open : i <= j
    IN  [i \in 1..Len(ss) |-> IF i = f THEN stepState(ss[i], txt) ELSE ss[i]]

\* the body of "for scanner.Scan()": every state sees the line
stepStates(ss, txt) == [i \in 1..Len(ss) |-> stepState(ss[i], txt)]

\* no error, and the error of the first state left without a result; the
\* message quotes s.end in both cases
noError == [err |-> nil, results |-> <<>>]

collectFrom_Lenient(ss, i) ==
    [err |-> nil,
     results |-> [k \in 1..Len(ss) |->
                     IF ss[k].hasResult THEN ss[k].result ELSE ss[k].buffer]]

RECURSIVE collectFrom(_, _)
\* the loop that builds results, from state i on
collectFrom(ss, i) ==
    IF i > Len(ss) THEN noError
    ELSE IF ss[i].hasResult
    THEN LET rest == collectFrom(ss, i + 1)
         IN  IF rest.err # nil THEN rest
             ELSE [rest EXCEPT !.results = <<ss[i].result>> \o rest.results]
    ELSE IF ss[i].hasBuffer
    THEN [err |-> <<"never matched end", ss[i].pq.end>>, results |-> <<>>]
    ELSE [err |-> <<"never matched start", ss[i].pq.end>>, results |-> <<>>]

collectResults(ss) == collectFrom(ss, 1)

RECURSIVE scanLines(_, _, _)
\* the scan loop of expandSrcPullQuotes run to the end of the file
scanLines(d, s, ss0) == Only({
        IF r.ok THEN scanLines(d, r.s, stepStates(ss, r.text)) ELSE ss
    : r \in {bufioScan("line", d, s)}, ss \in {ss0}})

\* expandSrcPullQuotes over an opened file holding the bytes d
expandSrc(d, pqs) == collectResults(scanLines(d, newScanner, newStates(pqs)))

-----------------------------------------------------------------------------
(* readPullQuotes *)

tagPullquote == <<"p", "u", "l", "l", "q", "u", "o", "t", "e">>
tagGoquote   == <<"g", "o", "q", "u", "o", "t", "e">>
tagJsonquote == <<"j", "s", "o", "n", "q", "u", "o", "t", "e">>
closePullquote == <<"/">> \o tagPullquote
closeGoquote   == <<"/">> \o tagGoquote
closeJsonquote == <<"/">> \o tagJsonquote

\* "/" alone, which every closing tag starts with
closePrefix_Any(tt) == <<"/">>

\* "/" + originalTag
closePrefix(tt) ==
    CASE tt = "pull" -> <<"/", "p", "u", "l", "l">>
      [] tt = "go"   -> <<"/", "g", "o">>
      [] tt = "json" -> <<"/", "j", "s", "o", "n">>

\* The body of "for comments.Scan()" in readPullQuotes for the comment b that
\* the scanner reports at [start, end): the list of pull quotes and the error
\* after it
readComment(pqs, b, start, end) == Only({
    LET d     == Slice(b, Len(commentOpen), Len(b) - Len(commentClose))
        t     == IF first.ok THEN first.text ELSE <<>>
        tt    == CASE t = tagPullquote -> "pull"
                   [] t = tagGoquote   -> "go"
                   [] t = tagJsonquote -> "json"
                   [] OTHER            -> ""
        l     == Len(pqs)
    IN  IF t \in {closePullquote, closeGoquote, closeJsonquote}
        THEN IF /\ l >= 1
                /\ pqs[l].endIdx = idxNoEnd
                /\ HasPrefixAt(t, 0, closePrefix(pqs[l].originalTag))
             THEN [pqs |-> [pqs EXCEPT ![l].endIdx = start], err |-> nil]
             ELSE [pqs |-> <<>>, err |-> <<"unexpected", t, start>>]
        ELSE IF tt = "" THEN [pqs |-> pqs, err |-> nil]
        ELSE Only({
            IF b1.err # nil
            THEN [pqs |-> <<>>, err |-> <<"parsing pullquote at offset", start>> \o b1.err]
            ELSE Only({
                IF v.err # nil
                THEN [pqs |-> <<>>,
                      err |-> <<"validating pullquote at offset", start>> \o v.err]
                ELSE [pqs |-> Append(pqs, v.pq), err |-> nil]
                : v \in {validate(b1.pq, b1.seen)}})
            : b1 \in {setOptions(newPullQuote(tt, end), d, first.s, tt)}})
    : first \in {bufioScan("tok", Slice(b, Len(commentOpen), Len(b) - Len(commentClose)),
                           newScanner)}})

RECURSIVE readLoop(_, _, _)
\* the loop over comments.Scan() from scanner state s on, then comments.Err()
readLoop(d, s, pqs0) == Only({
        IF ~r.ok
        THEN IF r.s.err # "" THEN [pqs |-> <<>>, err |-> <<r.s.err>>]
             ELSE [pqs |-> pqs, err |-> nil]
        ELSE Only({IF rc.err # nil THEN rc ELSE readLoop(d, r.s, rc.pqs)
                   : rc \in {readComment(pqs, r.text, r.s.start, r.s.end)}})
    : r \in {htmlScan(d, s)}, pqs \in {pqs0}})

\* readPullQuotes over a document holding the bytes d
readPullQuotes(d) == readLoop(d, newScanner, <<>>)

-----------------------------------------------------------------------------
(* processFile: paths relative to the document's directory *)

dir == <<"w">>

\* filepath.Join(dir, p) for a plain file name p
Join(d, p) == d \o <<"/">> \o p

\* the loop after readPullQuotes that resolves src and objPath
joinPaths(pqs) ==
    [i \in 1..Len(pqs) |->
        LET pq == pqs[i]
            p1 == IF pq.src # <<>> THEN [pq EXCEPT !.src = Join(dir, pq.src)] ELSE pq
        IN  IF /\ p1.objPath # <<>>
               /\ \/ HasPrefixAt(p1.objPath, 0, <<".", "/">>)
                  \/ Index(p1.objPath, <<".", "g", "o">>) # -1
            THEN [p1 EXCEPT !.objPath = Join(dir, p1.objPath)]
            ELSE p1]

-----------------------------------------------------------------------------
(* expandGoQuotes and expandJSONQuotes *)

\* a nil *expanded
nilExpanded == [nil |-> TRUE]

\* strings.SplitN(s, "#", 2)
splitObjPath(path) ==
    LET i == Index(path, <<"#">>)
    IN  IF i = -1 THEN <<path>>
        ELSE <<Slice(path, 0, i), Slice(path, i + 1, Len(path))>>

\* What the parsers behind the two expanders extract (go/ast and
\* encoding/json, outside the program): here the text of the symbol or path
\* in braces.  An object path without "#" makes parts[1] panic.
extract(pq) ==
    LET parts == splitObjPath(pq.objPath)
    IN  IF Len(parts) < 2
        THEN [err |-> <<"panic: index out of range">>, exp |-> nilExpanded]
        ELSE [err |-> nil,
              exp |-> [String |-> <<"{">> \o parts[2] \o <<"}">>, Parts |-> <<>>]]

RECURSIVE expandEach(_)
expandEach(pqs) ==
    IF pqs = <<>> THEN [err |-> nil, results |-> <<>>]
    ELSE LET e    == extract(Head(pqs))
             rest == expandEach(Tail(pqs))
         IN  IF e.err # nil THEN [err |-> e.err, results |-> <<>>]
             ELSE IF rest.err # nil THEN rest
             ELSE [err |-> nil, results |-> <<e.exp>> \o rest.results]

expandGoQuotes(pqs) == expandEach(pqs)

expandJSONQuotes(pqs) == expandEach(pqs)

-----------------------------------------------------------------------------
(* expandPullQuotes *)

\* the subsequence of q at the indices in idx, in order
RECURSIVE Pick(_, _, _)
Pick(q, idx, i) ==
    IF i > Len(q) THEN <<>>
    ELSE (IF i \in idx THEN <<q[i]>> ELSE <<>>) \o Pick(q, idx, i + 1)

\* mutant of Rank: the position counted from the last index
Rank_FromLast(idx, j) == Cardinality({k \in idx : k >= j})

\* the position of index j among the indices idx
Rank(idx, j) == Cardinality({k \in idx : k <= j})

\* One strategy of the first loop: the pull quotes of the type that have no
\* result yet are expanded in one call and the results put back in place.
\* acc is [err, results]; a result not yet set is nilExpanded
applyStrategy(acc0, pqs, quoteType) == Only({
    LET idx == {i \in 1..Len(pqs) :
                   acc.results[i] = nilExpanded /\ pqs[i].quoteType = quoteType}
        e   == IF quoteType = "go" THEN expandGoQuotes(Pick(pqs, idx, 1))
               ELSE expandJSONQuotes(Pick(pqs, idx, 1))
    IN  IF acc.err # nil \/ idx = {} THEN acc
        ELSE IF e.err # nil THEN [acc EXCEPT !.err = e.err]
        ELSE [acc EXCEPT !.results =
                 [j \in 1..Len(pqs) |->
                     IF j \in idx THEN e.results[Rank(idx, j)]
                     ELSE acc.results[j]]]
    : acc \in {acc0}})

\* os.Open and the read of a whole file on the file system f
openFile(f, path) ==
    IF path \in DOMAIN f THEN [err |-> nil, data |-> f[path]]
    ELSE [err |-> <<"open: no such file or directory", path>>, data |-> <<>>]

\* expandSrcPullQuotes(pqs) on the file system f
expandSrcPullQuotes(f, pqs) ==
    LET o == openFile(f, pqs[1].src)
    IN  IF o.err # nil THEN [err |-> o.err, results |-> <<>>]
        ELSE Only({
            [err  |-> r.err,
             results |-> [i \in 1..Len(r.results) |->
                             [String |-> r.results[i], Parts |-> <<>>]]]
            : r \in {expandSrc(o.data, pqs)}})

\* the pull quotes one call of expandSrcPullQuotes is asked to expand
pullGroup_Single(pqs, i) == {i}

\* the inner loop over pqs[i:]: every pull quote from i on with the src of i
pullGroup(pqs, i) == {j \in i..Len(pqs) : pqs[j].src = pqs[i].src}

RECURSIVE pullLoop(_, _, _, _)
\* the second loop of expandPullQuotes from index i on.
\* acc is [err, results, opened]: opened lists the paths handed to os.Open
pullLoop(f, acc0, pqs, i) == Only({
    IF i > Len(pqs) \/ acc.err # nil THEN acc
    ELSE IF acc.results[i] # nilExpanded THEN pullLoop(f, acc, pqs, i + 1)
    ELSE LET idx == pullGroup(pqs, i)
             acc1 == [acc EXCEPT !.opened = Append(acc.opened, pqs[i].src)]
         IN  Only({
             IF e.err # nil THEN [acc1 EXCEPT !.err = e.err]
             ELSE pullLoop(f,
                      [acc1 EXCEPT !.results =
                          [j \in 1..Len(pqs) |->
                              IF j \in idx THEN e.results[Rank(idx, j)]
                              ELSE acc.results[j]]],
                      pqs, i + 1)
             : e \in {expandSrcPullQuotes(f, Pick(pqs, idx, 1))}})
    : acc \in {acc0}})

\* expandPullQuotes(pqs) on the file system f: [err, results, opened]; on an
\* error the results are nil
expandPullQuotes(f, pqs) == Only({
        IF r.err # nil THEN [r EXCEPT !.results = <<>>] ELSE r
    : r \in {pullLoop(f, [err |-> typed.err, results |-> typed.results,
                          opened |-> <<>>], pqs, 1)
             : typed \in {applyStrategy(
                              applyStrategy(
                                  [err |-> nil,
                                   results |-> [i \in 1..Len(pqs) |-> nilExpanded]],
                                  pqs, "go"),
                              pqs, "json")}}})

-----------------------------------------------------------------------------
(* applyPullQuotes *)

RECURSIVE ReplaceNewlines(_, _)
\* strings.Replace(s, "\n", new, -1)
ReplaceNewlines(s, new) ==
    IF s = <<>> THEN <<>>
    ELSE (IF Head(s) = "\n" THEN new ELSE <<Head(s)>>) \o ReplaceNewlines(Tail(s), new)

\* mutant of writeCodeFence: the fence is always of backticks
writeCodeFence_Ticks(data, lang) ==
    <<"\n", BT, BT, BT>> \o lang \o <<"\n">> \o data \o <<"\n", BT, BT, BT, "\n">>

\* writeCodeFence(data, lang): the bytes written
writeCodeFence(data, lang) ==
    LET fence == IF HasPrefixAt(data, 0, <<BT, BT, BT>>) \/ Index(data, tickFence) # -1
                 THEN <<"~", "~", "~">> ELSE <<BT, BT, BT>>
    IN  <<"\n">> \o fence \o lang \o <<"\n">> \o data \o <<"\n">> \o fence \o <<"\n">>

\* mutant of formatQuote: every format is written as a code fence
formatQuote_Fence(pq, exp) == writeCodeFence(exp.String, pq.lang)

\* the switch on pq.fmt: the bytes written for one pull quote
formatQuote(pq, exp) ==
    CASE pq.fmt = fmtExample ->
            IF Len(exp.Parts) # 2 THEN writeCodeFence(exp.String, pq.lang)
            ELSE <<"\n", "*", "*", "C", "o", "d", "e", "*", "*", ":">> \o writeCodeFence(exp.Parts[1], pq.lang)
                 \o <<"*", "*", "O", "u", "t", "p", "u", "t", "*", "*", ":">> \o writeCodeFence(exp.Parts[2], <<>>)
      [] pq.fmt = fmtCodeFence -> writeCodeFence(exp.String, pq.lang)
      [] pq.fmt = fmtBlockQuote ->
            <<"\n", ">", " ">> \o ReplaceNewlines(exp.String, <<"\n", ">", " ">>) \o <<"\n">>
      [] OTHER -> <<"\n">> \o exp.String \o <<"\n">>

\* "<!-- /" + pq.originalTag + "quote -->"
endTag(pq) ==
    <<"<", "!", "-", "-", " ", "/">> \o
    (CASE pq.originalTag = "pull" -> <<"p", "u", "l", "l">>
       [] pq.originalTag = "go"   -> <<"g", "o">>
       [] pq.originalTag = "json" -> <<"j", "s", "o", "n">>) \o
    <<"q", "u", "o", "t", "e", " ", "-", "-", ">">>

skipTo_Start(pq) == pq.startIdx

\* readThrough after a pull quote: an end index skips the old content
skipTo(pq) == IF pq.endIdx = idxNoEnd THEN pq.startIdx ELSE pq.endIdx

RECURSIVE applyFrom(_, _, _, _, _)
\* the loop of applyPullQuotes from pull quote i on with readThrough, and the
\* copy of the rest of the document after it: the bytes written
applyFrom(pqs, exps, d, i, readThrough) ==
    IF i > Len(pqs) THEN Slice(d, readThrough, Len(d))
    ELSE Slice(d, readThrough, pqs[i].startIdx)
         \o formatQuote(pqs[i], exps[i])
         \o (IF pqs[i].endIdx = idxNoEnd THEN endTag(pqs[i]) ELSE <<>>)
         \o applyFrom(pqs, exps, d, i + 1, skipTo(pqs[i]))

\* applyPullQuotes(pqs, expanded, r, w) over the document bytes d
applyPullQuotes(pqs, exps, d) == applyFrom(pqs, exps, d, 1, 0)

-----------------------------------------------------------------------------
(* What the scanner is specified to yield (spec 4.1), stated over the whole *)
(* document: the fenced code blocks, and the comments outside them.         *)

\* offset p is the first byte of a line
IsLineStart(d, p) == p = 0 \/ (p <= Len(d) /\ d[p] = "\n")

RECURSIVE RunLen(_, _, _)
\* the length of the run of byte ch that starts at offset p
RunLen(d, p, ch) ==
    IF p < Len(d) /\ d[p + 1] = ch THEN 1 + RunLen(d, p + 1, ch) ELSE 0

\* a fence delimiter (a run of at least three ch) begins the line at p
IsFenceLine(d, p, ch) == IsLineStart(d, p) /\ RunLen(d, p, ch) >= 3

\* a fence opens at p
OpensFence(d, p) == IsFenceLine(d, p, BT) \/ IsFenceLine(d, p, "~")

\* the offset just past the fenced block that opens at p; Len(d) when it is
\* never closed
FenceEnd(d, p) ==
    LET ch     == IF IsFenceLine(d, p, BT) THEN BT ELSE "~"
        n      == RunLen(d, p, ch)
        closes == {r \in (p + n)..Len(d) :
                      IsLineStart(d, r) /\ RunLen(d, r, ch) >= n}
    IN  IF closes = {} THEN Len(d)
        ELSE LET r == CHOOSE r \in closes : \A q \in closes : r <= q
             IN  r + RunLen(d, r, ch)

RECURSIVE SpecFences(_, _)
\* the fenced blocks of d from offset p on, as <<start, end>>
SpecFences(d, p) ==
    IF p >= Len(d) THEN {}
    ELSE IF OpensFence(d, p)
    THEN {<<p, FenceEnd(d, p)>>} \cup SpecFences(d, FenceEnd(d, p))
    ELSE SpecFences(d, p + 1)

\* the comment that starts at p: <<p, end>>, or <<-1, -1>> when no complete
\* comment starts there (none is closed before the next fence or the next
\* opener)
CommentAt(d, p) ==
    LET closes == {c \in (p + 4)..(Len(d) - 3) : HasPrefixAt(d, c, commentClose)}
        c      == CHOOSE c \in closes : \A q \in closes : c <= q
    IN  IF /\ HasPrefixAt(d, p, commentOpen)
           /\ closes # {}
           /\ \A q \in (p + 1)..(c + 2) :
                 ~HasPrefixAt(d, q, commentOpen) /\ ~OpensFence(d, q)
        THEN <<p, c + 3>>
        ELSE <<-1, -1>>

RECURSIVE SpecComments(_, _)
\* the complete comments of d outside fenced blocks from offset p on, in
\* document order, as <<start, end>>
SpecComments(d, p) ==
    IF p >= Len(d) THEN <<>>
    ELSE IF OpensFence(d, p) THEN SpecComments(d, FenceEnd(d, p))
    ELSE IF CommentAt(d, p)[1] # -1
    THEN <<CommentAt(d, p)>> \o SpecComments(d, CommentAt(d, p)[2])
    ELSE SpecComments(d, p + 1)

\* the <<start, end>> of the yielded tokens
Offsets(ts) == [i \in 1..Len(ts) |-> <<ts[i].start, ts[i].end>>]


-----------------------------------------------------------------------------
(* The scanner run on its own over bounded documents *)

\* the variables of the other parts, at rest
\* what processFiles has returned: nothing yet, nil, or an error
noReturn == [msg |-> "none"]

FilesIdle ==
    /\ checkMode = FALSE /\ docState = <<>> /\ ctxDone = FALSE
    /\ fns = <<>> /\ fnsNil = FALSE /\ workers = <<>> /\ resultCh = <<>>
    /\ inFlight = 0 /\ err = nil /\ errFn = <<>> /\ otherErrs = 0
    /\ moves = <<>> /\ ret = noReturn /\ renamed = {}

\* a goroutine that was not started
notStarted == [pc |-> "off", val |-> <<>>]

ListIdle ==
    /\ lctxDone = FALSE /\ args = <<>> /\ stdin = <<>> /\ tree = <<>>
    /\ scanner = notStarted /\ walker = notStarted
    /\ merger = [pc |-> "off", val |-> <<>>, from |-> "off"]
    /\ seenPaths = {} /\ scanned = "nil" /\ walked = "nil"
    /\ merged = [buf |-> <<>>, cap |-> 0, closed |-> FALSE]
    /\ errC = [buf |-> <<>>, closed |-> FALSE]

SysIdle == FilesIdle /\ ListIdle

ScanIdle == doc = <<>> /\ sc = newScanner /\ tokens = <<>>

PipeIdle ==
    /\ fs = <<>> /\ quotes = <<>> /\ expanded = <<>> /\ opened = <<>>
    /\ out = <<>> /\ tempFn = "" /\ perr = nil /\ exits = <<>>

SrcIdle ==
    file = <<>> /\ batch = <<>> /\ lsc = newScanner /\ states = <<>> /\ found = noError

MaxLex == 6

ScanLexemes == {commentOpen, commentClose, <<"\n">>, <<BT, BT, BT>>,
                <<"~", "~", "~">>, <<"x">>}

ScanDocs == {Flatten(ls) : ls \in SeqsUpTo(ScanLexemes, MaxLex)}

ScanInit ==
    /\ pc = "scan"
    /\ doc \in ScanDocs
    /\ sc = newScanner
    /\ tokens = <<>>
    /\ SrcIdle
    /\ PipeIdle
    /\ SysIdle

\* for comments.Scan() { ... } with the token recorded
ScanToken ==
    /\ pc = "scan"
    /\ LET r == htmlScan(doc, sc)
       IN  /\ r.ok
           /\ sc' = r.s
           /\ tokens' = Append(tokens, [start |-> r.s.start, end |-> r.s.end,
                                        text |-> r.text])
    /\ UNCHANGED <<pc, doc>>
    /\ UNCHANGED srcVars
    /\ UNCHANGED pipeVars
    /\ UNCHANGED sysVars

\* comments.Scan() returns false
ScanEnd ==
    /\ pc = "scan"
    /\ LET r == htmlScan(doc, sc)
       IN  /\ ~r.ok
           /\ sc' = r.s
    /\ pc' = "scanned"
    /\ UNCHANGED <<doc, tokens>>
    /\ UNCHANGED srcVars
    /\ UNCHANGED pipeVars
    /\ UNCHANGED sysVars

ScanNext == ScanToken \/ ScanEnd

SpecScan == ScanInit /\ [][ScanNext]_vars

-----------------------------------------------------------------------------
(* expandSrcPullQuotes run on its own over bounded files and batches *)

MaxSrcLines == 3
MaxBatch == 2

SrcLineSet == {<<"a", "\n">>, <<"b", "\n">>, <<"a", "b", "\n">>, <<"x", "\n">>,
               <<"b", "\r", "\n">>}

\* files of whole lines, and the same files with the last newline missing
SrcFiles ==
    LET whole == {Flatten(ls) : ls \in SeqsUpTo(SrcLineSet, MaxSrcLines)}
    IN  whole \cup {SubSeq(f, 1, Len(f) - 1) : f \in whole \ {<<>>}}

SrcPatterns == {<<"a">>, <<"b">>}

\* the end counts strconv.Atoi can leave in a pull quote (0: unset)
SrcEndCounts == {-1, 0, 1, 2}

SrcPqs == [src : {<<"f">>}, start : SrcPatterns, end : SrcPatterns,
           endCount : SrcEndCounts]

SrcInit ==
    /\ pc = "src"
    /\ file \in SrcFiles
    /\ batch \in SeqsUpTo(SrcPqs, MaxBatch) \ {<<>>}
    /\ lsc = newScanner
    /\ states = newStates(batch)
    /\ found = noError
    /\ ScanIdle
    /\ PipeIdle
    /\ SysIdle

\* scanner.Scan() returns a line: every state sees it
SrcLine ==
    /\ pc = "src"
    /\ LET r == bufioScan("line", file, lsc)
       IN  /\ r.ok
           /\ lsc' = r.s
           /\ states' = stepStates(states, r.text)
    /\ UNCHANGED <<pc, file, batch, found>>
    /\ UNCHANGED scanVars
    /\ UNCHANGED pipeVars
    /\ UNCHANGED sysVars

\* scanner.Scan() returns false: the results, or the first error
SrcFinish ==
    /\ pc = "src"
    /\ LET r == bufioScan("line", file, lsc)
       IN  /\ ~r.ok
           /\ lsc' = r.s
    /\ found' = collectResults(states)
    /\ pc' = "srcDone"
    /\ UNCHANGED <<file, batch, states>>
    /\ UNCHANGED scanVars
    /\ UNCHANGED pipeVars
    /\ UNCHANGED sysVars

SrcNext == SrcLine \/ SrcFinish

SpecSrc == SrcInit /\ [][SrcNext]_vars

-----------------------------------------------------------------------------
(* processFile and processFiles over one document, invoked MaxRuns times *)

MaxSegs == 4
MaxRuns == 2

openA  == <<"<", "!", "-", "-", " ", "p", "u", "l", "l", "q", "u", "o", "t", "e", " ", "s", "r", "c", "=", "f", " ", "s", "t", "a", "r", "t", "=", "a", " ", "e", "n", "d", "=", "b", " ", "-", "-", ">">>
openG  == <<"<", "!", "-", "-", " ", "p", "u", "l", "l", "q", "u", "o", "t", "e", " ", "s", "r", "c", "=", "g", " ", "s", "t", "a", "r", "t", "=", "a", " ", "e", "n", "d", "=", "a", " ", "f", "m", "t", "=", "b", "l", "o", "c", "k", "q", "u", "o", "t", "e", " ", "-", "-", ">">>
openGo == <<"<", "!", "-", "-", " ", "g", "o", "q", "u", "o", "t", "e", " ", "p", ".", "g", "o", "#", "F", " ", "-", "-", ">">>
closeP == <<"<", "!", "-", "-", " ", "/", "p", "u", "l", "l", "q", "u", "o", "t", "e", " ", "-", "-", ">">>
closeG == <<"<", "!", "-", "-", " ", "/", "g", "o", "q", "u", "o", "t", "e", " ", "-", "-", ">">>

PipeSegments == {openA, openG, openGo, closeP, closeG, <<"x">>}

PipeDocs == {Flatten(ls) : ls \in SeqsUpTo(PipeSegments, MaxSegs)}

pathF == Join(dir, <<"f">>)
pathG == Join(dir, <<"g">>)

\* the contents w/f can have; <<"?">> stands for no such file
PipeFilesF == {<<"?">>, <<"a", "\n">>, <<"x", "\n">>, <<"a", "\n", "b", "\n">>,
               <<"a", "-", "-", ">", "\n", "b", "\n">>}

PipeFilesG == {<<"a", "\n">>, <<"x", "\n">>}

PipeFileSystems ==
    {[p \in (IF f = <<"?">> THEN {} ELSE {pathF}) \cup {pathG} |->
         IF p = pathF THEN f ELSE g] : f \in PipeFilesF, g \in PipeFilesG}

\* what a new invocation starts from
Fresh ==
    /\ quotes' = <<>> /\ expanded' = <<>> /\ opened' = <<>>
    /\ out' = <<>> /\ tempFn' = "" /\ perr' = nil

Init ==
    /\ pc = "read"
    /\ doc \in PipeDocs
    /\ sc = newScanner
    /\ tokens = <<>>
    /\ fs \in PipeFileSystems
    /\ quotes = <<>> /\ expanded = <<>> /\ opened = <<>>
    /\ out = <<>> /\ tempFn = "" /\ perr = nil /\ exits = <<>>
    /\ SrcIdle
    /\ SysIdle

\* processFile up to the call of expandPullQuotes
Read ==
    /\ pc = "read"
    /\ \E r \in {readPullQuotes(doc)} :
           IF r.err # nil
           THEN /\ perr' = <<"readPullQuotes">> \o r.err
                /\ quotes' = <<>>
                /\ pc' = "done"
           ELSE IF Len(r.pqs) = 0
           THEN /\ perr' = nil
                /\ quotes' = <<>>
                /\ pc' = "done"
           ELSE /\ perr' = nil
                /\ quotes' = joinPaths(r.pqs)
                /\ pc' = "expand"
    /\ UNCHANGED <<doc, sc, tokens, fs, expanded, opened, out, tempFn, exits>>
    /\ UNCHANGED srcVars
    /\ UNCHANGED sysVars

\* processFile: expandPullQuotes and its error return
Expand ==
    /\ pc = "expand"
    /\ \E e \in {expandPullQuotes(fs, quotes)} :
           /\ opened' = e.opened
           /\ expanded' = e.results
           /\ IF e.err # nil
              THEN perr' = <<"expandedPullQuotes">> \o e.err /\ pc' = "done"
              ELSE perr' = nil /\ pc' = "apply"
    /\ UNCHANGED <<doc, sc, tokens, fs, quotes, out, tempFn, exits>>
    /\ UNCHANGED srcVars
    /\ UNCHANGED sysVars

\* processFile: applyPullQuotes into the temp file, then filesChanged
Apply ==
    /\ pc = "apply"
    /\ \E o \in {applyPullQuotes(quotes, expanded, doc)} :
           /\ out' = o
           /\ tempFn' = IF o # doc THEN "tmp" ELSE ""
    /\ pc' = "done"
    /\ UNCHANGED <<doc, sc, tokens, fs, quotes, expanded, opened, perr, exits>>
    /\ UNCHANGED srcVars
    /\ UNCHANGED sysVars

\* processFiles after the result of the one document: the error return, or
\* the renames and the report of files_updated
Finish ==
    /\ pc = "done"
    /\ IF perr = nil /\ tempFn # ""
       THEN /\ doc' = out
            /\ exits' = Append(exits, [err |-> nil, updated |-> 1])
       ELSE /\ doc' = doc
            /\ exits' = Append(exits, [err |-> perr, updated |-> 0])
    /\ pc' = "exit"
    /\ UNCHANGED <<sc, tokens, fs, quotes, expanded, opened, out, tempFn, perr>>
    /\ UNCHANGED srcVars
    /\ UNCHANGED sysVars

\* the program is run again on the same document and sources
Invoke ==
    /\ pc = "exit"
    /\ Len(exits) < MaxRuns
    /\ Fresh
    /\ pc' = "read"
    /\ UNCHANGED <<doc, sc, tokens, fs, exits>>
    /\ UNCHANGED srcVars
    /\ UNCHANGED sysVars

Next == Read \/ Expand \/ Apply \/ Finish \/ Invoke

Spec == Init /\ [][Next]_vars

-----------------------------------------------------------------------------
(* readPullQuotes run comment by comment over bounded documents *)

MaxComments == 4

closeJ   == <<"<", "!", "-", "-", " ", "/", "j", "s", "o", "n", "q", "u", "o", "t", "e", " ", "-", "-", ">">>
openJson == <<"<", "!", "-", "-", " ", "j", "s", "o", "n", "q", "u", "o", "t", "e", " ", "j", "#", "k", " ", "-", "-", ">">>


\* the text of option key k as a marker carries it
optionText(k) ==
    CASE k = keySrc          -> <<"s", "r", "c", "=", "f">>
      [] k = keyStart        -> <<"s", "t", "a", "r", "t", "=", "a">>
      [] k = keyEnd          -> <<"e", "n", "d", "=", "b">>
      [] k = keyEndCount     -> <<"e", "n", "d", "c", "o", "u", "n", "t", "=", "2">>
      [] k = keyGoPath       -> <<"g", "o", "p", "a", "t", "h", "=", "p", ".", "g", "o", "#", "F">>
      [] k = keyJSONPath     -> <<"j", "s", "o", "n", "p", "a", "t", "h", "=", "j", "#", "k">>
      [] k = keyIncludeGroup -> keyIncludeGroup
      [] k = keyNoReformat   -> keyNoReformat
      [] k = keyFmt          -> <<"f", "m", "t", "=", "n", "o", "n", "e">>
      [] k = keyLang         -> <<"l", "a", "n", "g", "=", "g", "o">>

\* the order in which a marker of the model lists its options
optionOrder == <<keySrc, keyStart, keyEnd, keyEndCount, keyGoPath, keyJSONPath,
                 keyIncludeGroup, keyNoReformat, keyFmt, keyLang>>

AllKeys == {optionOrder[i] : i \in 1..Len(optionOrder)}

\* the comment "<!-- <head> <options of ks, in order> -->"
markerText(head, ks) ==
    commentOpen \o <<" ">> \o head \o <<" ">>
    \o Flatten([i \in 1..Len(optionOrder) |->
                   IF optionOrder[i] \in ks
                   THEN optionText(optionOrder[i]) \o <<" ">> ELSE <<>>])
    \o commentClose

headPull == tagPullquote
headGo   == tagGoquote \o <<" ", "p", ".", "g", "o", "#", "F">>
headJson == tagJsonquote \o <<" ", "j", "#", "k">>

\* one marker with any set of options; a goquote or jsonquote tag carries its
\* object path in first position
OptionDocs ==
    {markerText(headPull, ks) : ks \in SUBSET AllKeys}
    \cup {markerText(headGo, ks) : ks \in SUBSET (AllKeys \ {keyGoPath})}
    \cup {markerText(headJson, ks) : ks \in SUBSET (AllKeys \ {keyJSONPath})}

\* a pull marker that lacks start
openLacking == markerText(headPull, {keySrc, keyEnd})

\* documents of markers and closing comments of the three kinds
ReadSegments == {openA, openGo, openJson, openLacking, closeP, closeG, closeJ, <<"x">>}

ReadDocs ==
    {Flatten(ls) : ls \in SeqsUpTo(ReadSegments, MaxComments)} \cup OptionDocs

ReadInit ==
    /\ pc = "reading"
    /\ doc \in ReadDocs
    /\ sc = newScanner
    /\ tokens = <<>>
    /\ fs = <<>> /\ quotes = <<>> /\ expanded = <<>> /\ opened = <<>>
    /\ out = <<>> /\ tempFn = "" /\ perr = nil /\ exits = <<>>
    /\ SrcIdle
    /\ SysIdle

\* one turn of "for comments.Scan()" in readPullQuotes: the comment is
\* recorded, and the list of pull quotes grows, closes its last one, or the
\* function returns the error
ReadComment ==
    /\ pc = "reading"
    /\ \E r \in {htmlScan(doc, sc)} :
          /\ r.ok
          /\ sc' = r.s
          /\ tokens' = Append(tokens, [start |-> r.s.start, end |-> r.s.end,
                                       text |-> r.text])
          /\ \E rc \in {readComment(quotes, r.text, r.s.start, r.s.end)} :
                /\ quotes' = rc.pqs
                /\ perr' = rc.err
                /\ pc' = IF rc.err # nil THEN "readDone" ELSE "reading"
    /\ UNCHANGED <<doc, fs, expanded, opened, out, tempFn, exits>>
    /\ UNCHANGED srcVars
    /\ UNCHANGED sysVars

\* comments.Scan() returns false: readPullQuotes returns pqs, or the
\* scanner's error
ReadReturn ==
    /\ pc = "reading"
    /\ \E r \in {htmlScan(doc, sc)} :
          /\ ~r.ok
          /\ sc' = r.s
          /\ IF r.s.err # ""
             THEN quotes' = <<>> /\ perr' = <<r.s.err>>
             ELSE UNCHANGED <<quotes, perr>>
    /\ pc' = "readDone"
    /\ UNCHANGED <<doc, tokens, fs, expanded, opened, out, tempFn, exits>>
    /\ UNCHANGED srcVars
    /\ UNCHANGED sysVars

ReadNext == ReadComment \/ ReadReturn

SpecRead == ReadInit /\ [][ReadNext]_vars

-----------------------------------------------------------------------------
(* setOptions and validate run over single markers written in many forms *)

\* the options a marker of each tag needs besides the key under study
baseKeys(head) == IF head = headPull THEN {keySrc, keyStart, keyEnd} ELSE {}

valueKeys == AllKeys \ {keyIncludeGroup, keyNoReformat}

\* key k written in the form its kind does not take: a value key bare, a
\* flag key with "=x"
wrongForm(k) == IF k \in valueKeys THEN k ELSE k \o <<"=", "x">>

\* a marker of the given head whose options are well formed but for key k,
\* which stands first or last among them
ArityCases ==
    {c \in [head : {headPull, headGo, headJson}, k : AllKeys, first : BOOLEAN] :
        /\ ~(c.head = headGo /\ c.k = keyGoPath)
        /\ ~(c.head = headJson /\ c.k = keyJSONPath)}

arityDoc(c) ==
    commentOpen \o <<" ">> \o c.head \o <<" ">>
    \o (IF c.first THEN wrongForm(c.k) \o <<" ">> ELSE <<>>)
    \o Flatten([i \in 1..Len(optionOrder) |->
                   IF optionOrder[i] \in baseKeys(c.head) \ {c.k}
                   THEN optionText(optionOrder[i]) \o <<" ">> ELSE <<>>])
    \o (IF c.first THEN <<>> ELSE wrongForm(c.k) \o <<" ">>)
    \o commentClose

ArityDocs == {arityDoc(c) : c \in ArityCases}

\* object paths of the model
ObjPaths ==
    {<<"p", ".", "g", "o", "#", "F">>, <<"j", "#", "k">>,
     <<".", "#", "E", "x", "a", "m", "p", "l", "e", "F">>,
     <<".", "#", "F", "E", "x", "a", "m", "p", "l", "e">>}

\* the key a tag's first positional value stands for
pathKey(tag) == IF tag = tagGoquote THEN keyGoPath ELSE keyJSONPath

\* a goquote or jsonquote marker naming object path p, without its key
\* ("<!-- goquote p ... -->") or in the long form ("<!-- goquote gopath=p
\* ... -->"), followed by the options of ks
PathCases ==
    [tag : {tagGoquote, tagJsonquote}, p : ObjPaths, long : BOOLEAN,
     ks : SUBSET {keyNoReformat, keyFmt, keyLang}]

pathDoc(c) ==
    markerText(c.tag \o <<" ">>
               \o (IF c.long THEN pathKey(c.tag) \o <<"=">> ELSE <<>>) \o c.p,
               c.ks)

PathDocs == {pathDoc(c) : c \in PathCases}

\* a pullquote marker with its three required keys and the options of ks,
\* which are those a Pull marker may carry
PullCases == SUBSET {keyFmt, keyLang, keyEndCount}

pullDoc(ks) == markerText(headPull, {keySrc, keyStart, keyEnd} \cup ks)

PullDocs == {pullDoc(ks) : ks \in PullCases}

\* ends of an attribute text that leave a quote open or a backslash
\* unresolved: the bytes between the last well-formed option and "-->"
OpenEnds ==
    {<<"l", "a", "n", "g", "=", "\"", "g", " ">>,
     <<"l", "a", "n", "g", "=", "'", "g", " ">>,
     <<"l", "a", "n", "g", "=", "g", "\\">>,
     <<"l", "a", "n", "g", "=", "\"", "\\", " ">>,
     <<"l", "a", "n", "g", "\\">>,
     <<"\"", " ">>}

\* a marker of the given head whose well-formed options ks are followed by
\* one of these ends, alone in the document or after another marker
OpenCases ==
    {c \in [head : {headPull, headGo, headJson},
            ks : {{}, {keySrc}, {keySrc, keyStart, keyEnd}, {keyNoReformat}},
            tail : OpenEnds, before : {<<>>, openA}] :
        IF c.head = headPull THEN keyNoReformat \notin c.ks
        ELSE keySrc \notin c.ks}

\* the bytes of the marker of case c between "<!--" and "-->"
openAttrs(c) ==
    <<" ">> \o c.head \o <<" ">>
    \o Flatten([i \in 1..Len(optionOrder) |->
                   IF optionOrder[i] \in c.ks
                   THEN optionText(optionOrder[i]) \o <<" ">> ELSE <<>>])
    \o c.tail

openDoc(c) == c.before \o commentOpen \o openAttrs(c) \o commentClose

OpenDocs == {openDoc(c) : c \in OpenCases}

\* the values a marker of the model gives endcount
EndCounts == {<<"0">>, <<"1">>, <<"2">>, <<"-", "1">>, <<"-", "2">>, <<"+", "1">>, <<"x">>}

\* a pullquote marker with its three required keys and endcount=v
endCountDoc(v) ==
    commentOpen \o <<" ">> \o headPull \o <<" ">>
    \o optionText(keySrc) \o <<" ">> \o optionText(keyStart) \o <<" ">>
    \o optionText(keyEnd) \o <<" ">> \o keyEndCount \o <<"=">> \o v \o <<" ">>
    \o commentClose

EndCountDocs == {endCountDoc(v) : v \in EndCounts}

ParseDocs ==
    ArityDocs \cup PathDocs \cup PullDocs \cup OpenDocs \cup EndCountDocs

ParseInit ==
    /\ pc = "reading"
    /\ doc \in ParseDocs
    /\ sc = newScanner
    /\ tokens = <<>>
    /\ fs = <<>> /\ quotes = <<>> /\ expanded = <<>> /\ opened = <<>>
    /\ out = <<>> /\ tempFn = "" /\ perr = nil /\ exits = <<>>
    /\ SrcIdle
    /\ SysIdle

SpecParse == ParseInit /\ [][ReadNext]_vars

-----------------------------------------------------------------------------
(* tokenizingScanner run over quoted words *)

MaxWord == 4

WordBytes == {"\"", "'", "\\", " ", "=", "a"}

Words == SeqsUpTo(WordBytes, MaxWord)

RECURSIVE escape(_)
\* w with a backslash before each double quote and each backslash
escape(w) ==
    IF w = <<>> THEN <<>>
    ELSE (IF Head(w) \in {"\"", "\\"} THEN <<"\\", Head(w)>> ELSE <<Head(w)>>)
         \o escape(Tail(w))

\* the text that writes w as one double-quoted word
quoted(w) == <<"\"">> \o escape(w) \o <<"\"">>

TokInit ==
    /\ pc = "tok"
    /\ doc \in {quoted(w) : w \in Words}
    /\ sc = newScanner
    /\ tokens = <<>>
    /\ SrcIdle
    /\ PipeIdle
    /\ SysIdle

\* toks.Scan() returns true: the token is recorded with its offsets
TokScan ==
    /\ pc = "tok"
    /\ \E r \in {bufioScan("tok", doc, sc)} :
          /\ r.ok
          /\ sc' = r.s
          /\ tokens' = Append(tokens, [start |-> r.s.start, end |-> r.s.end,
                                       text |-> r.text])
    /\ UNCHANGED <<pc, doc>>
    /\ UNCHANGED srcVars
    /\ UNCHANGED pipeVars
    /\ UNCHANGED sysVars

\* toks.Scan() returns false
TokEnd ==
    /\ pc = "tok"
    /\ \E r \in {bufioScan("tok", doc, sc)} :
          /\ ~r.ok
          /\ sc' = r.s
    /\ pc' = "tokDone"
    /\ UNCHANGED <<doc, tokens>>
    /\ UNCHANGED srcVars
    /\ UNCHANGED pipeVars
    /\ UNCHANGED sysVars

TokNext == TokScan \/ TokEnd

SpecTok == TokInit /\ [][TokNext]_vars

-----------------------------------------------------------------------------
(* The scanner run over documents of fence lines and comment lines *)

MaxFenceLines == 5

FenceLineSet == {<<BT, BT, BT>>, <<BT, BT, BT, BT>>, <<"~", "~", "~">>,
                 <<"~", "~", "~", "~">>,
                 <<"<", "!", "-", "-", "c", "-", "-", ">">>, <<"x">>}

\* documents whose first line is empty, so that every fence follows a newline
FenceDocs ==
    {Flatten([i \in 1..Len(ls) |-> <<"\n">> \o ls[i]])
        : ls \in SeqsUpTo(FenceLineSet, MaxFenceLines)}

FenceInit ==
    /\ pc = "scan"
    /\ doc \in FenceDocs
    /\ sc = newScanner
    /\ tokens = <<>>
    /\ SrcIdle
    /\ PipeIdle
    /\ SysIdle

SpecFence == FenceInit /\ [][ScanNext]_vars

-----------------------------------------------------------------------------
(* processFile over documents that mix the three kinds of marker *)

MaxMix == 4

openB     == <<"<", "!", "-", "-", " ", "p", "u", "l", "l", "q", "u", "o", "t", "e", " ", "s", "r", "c", "=", "f", " ", "s", "t", "a", "r", "t", "=", "b", " ", "e", "n", "d", "=", "b", " ", "-", "-", ">">>
openGoH   == <<"<", "!", "-", "-", " ", "g", "o", "q", "u", "o", "t", "e", " ", "p", ".", "g", "o", "#", "H", " ", "-", "-", ">">>
openJsonM == <<"<", "!", "-", "-", " ", "j", "s", "o", "n", "q", "u", "o", "t", "e", " ", "j", "#", "m", " ", "-", "-", ">">>

\* markers on two source files, two Go symbols and two JSON paths, closing
\* comments and text
MixSegments == {openA, openB, openG, openGo, openGoH, openJson, openJsonM,
                closeP, closeG, closeJ, <<"x">>}

MixDocs == {Flatten(ls) : ls \in SeqsUpTo(MixSegments, MaxMix)}

\* w/f and w/g, from which the three Pull markers take different regions
MixFileSystem ==
    [p \in {pathF, pathG} |->
        IF p = pathF THEN <<"a", "\n", "x", "\n", "b", "\n">> ELSE <<"a", "\n">>]

MixInit ==
    /\ pc = "read"
    /\ doc \in MixDocs
    /\ sc = newScanner
    /\ tokens = <<>>
    /\ fs = MixFileSystem
    /\ quotes = <<>> /\ expanded = <<>> /\ opened = <<>>
    /\ out = <<>> /\ tempFn = "" /\ perr = nil /\ exits = <<>>
    /\ SrcIdle
    /\ SysIdle

MixNext == Read \/ Expand \/ Apply

SpecMix == MixInit /\ [][MixNext]_vars

-----------------------------------------------------------------------------
(* processFile over one Go marker, for every content the extractor returns *)

MaxContentLines == 3

\* the lines a resolved content is made of: fence delimiters, text, and
\* comments that read as a closing tag and as a marker
ContentLineSet == {<<BT, BT, BT>>, <<"~", "~", "~">>, <<"x">>, closeG, openGo}

RECURSIVE joinLines(_)
\* the lines of ls joined by newlines
joinLines(ls) ==
    IF Len(ls) = 0 THEN <<>>
    ELSE IF Len(ls) = 1 THEN ls[1]
    ELSE ls[1] \o <<"\n">> \o joinLines(Tail(ls))

ContentStrings ==
    {joinLines(ls) : ls \in SeqsUpTo(ContentLineSet, MaxContentLines) \ {<<>>}}

\* what parseExampleTest can return for an example: nothing when the symbol
\* is no function, one part when it has no Output comment, else two
ContentParts == {<<>>, <<<<"x">>>>, <<<<"x">>, <<"y">>>>,
                 <<<<BT, BT, BT>>, <<"y">>>>}

\* Go markers: default format, format by the symbol's name, and formats and
\* languages the marker names
goMarker(path, opts) ==
    commentOpen \o <<" ">> \o tagGoquote \o <<" ">> \o path \o opts \o <<" ">>
    \o commentClose

pathGoF  == <<"p", ".", "g", "o", "#", "F">>
pathGoEx == <<"p", ".", "g", "o", "#", "E", "x", "a", "m", "p", "l", "e", "F">>

FmtMarkers ==
    {goMarker(pathGoF, <<>>), goMarker(pathGoEx, <<>>),
     goMarker(pathGoF, <<" ", "l", "a", "n", "g", "=", "m", "d">>),
     goMarker(pathGoF, <<" ", "f", "m", "t", "=", "c", "o", "d", "e", "f", "e", "n", "c", "e",
                         " ", "l", "a", "n", "g", "=", "m", "d">>),
     goMarker(pathGoF, <<" ", "f", "m", "t", "=", "e", "x", "a", "m", "p", "l", "e">>),
     goMarker(pathGoF, <<" ", "f", "m", "t", "=", "n", "o", "n", "e">>),
     goMarker(pathGoF, <<" ", "f", "m", "t", "=", "b", "l", "o", "c", "k", "q", "u", "o", "t", "e">>)}

\* the marker alone, or already closed around old text
FmtDocs ==
    {<<"t", "\n">> \o m \o rest :
        m \in FmtMarkers,
        rest \in {<<>>, <<"\n">>, <<"\n", "o", "\n">> \o closeG \o <<"\n">>}}

\* the Go sources: what the extractor finds for each object path of a marker
FmtSources ==
    {[p \in {Join(dir, pathGoF), Join(dir, pathGoEx)} |->
         [String |-> c, Parts |-> ps]] : c \in ContentStrings, ps \in ContentParts}

FmtInit ==
    /\ pc = "read"
    /\ doc \in FmtDocs
    /\ sc = newScanner
    /\ tokens = <<>>
    /\ fs \in FmtSources
    /\ quotes = <<>> /\ expanded = <<>> /\ opened = <<>>
    /\ out = <<>> /\ tempFn = "" /\ perr = nil /\ exits = <<>>
    /\ SrcIdle
    /\ SysIdle

\* processFile: expandPullQuotes on Go markers only, the extractor finding
\* in the sources the text of each object and, when the format is example,
\* its parts
ExpandGo ==
    /\ pc = "expand"
    /\ \A i \in 1..Len(quotes) : quotes[i].quoteType = "go"
    /\ IF \A i \in 1..Len(quotes) : quotes[i].objPath \in DOMAIN fs
       THEN /\ expanded' =
                  [i \in 1..Len(quotes) |->
                      [String |-> fs[quotes[i].objPath].String,
                       Parts  |-> IF quotes[i].fmt = fmtExample
                                  THEN fs[quotes[i].objPath].Parts ELSE <<>>]]
            /\ perr' = nil
            /\ pc' = "apply"
       ELSE /\ expanded' = <<>>
            /\ perr' = <<"expandedPullQuotes", "couldn't find">>
            /\ pc' = "done"
    /\ UNCHANGED <<doc, sc, tokens, fs, quotes, opened, out, tempFn, exits>>
    /\ UNCHANGED srcVars
    /\ UNCHANGED sysVars

FmtNext == Read \/ ExpandGo \/ Apply \/ Finish \/ Invoke

SpecFmt == FmtInit /\ [][FmtNext]_vars

-----------------------------------------------------------------------------
(* The scanner over a reader that delivers the document in chunks *)

MaxChunkLex == 3
MaxReads == 3

ChunkLexemes == {<<"<", "!", "-", "-", "c", "-", "-", ">">>, <<"x">>,
                 <<"\n", BT, BT, BT, "\n">>}

ChunkDocs == {Flatten(ls) : ls \in SeqsUpTo(ChunkLexemes, MaxChunkLex)}

\* the numbers of bytes one Read of the reader can deliver
ChunkSizes == {1, 3, 4, 8, 32}

RECURSIVE bufioScanReads(_, _, _, _)
\* One call of Scan() on the scanner s over the bytes d when the Reads it
\* makes deliver ns[1], ns[2], ... bytes (a Read at the end of d reports
\* EOF).  short: the call needs more Reads than ns holds; left: the sizes
\* it did not use
bufioScanReads(kind, d, s, ns) == Only({
    LET atEOF == s.eof \/ s.err # ""
        s1    == [s EXCEPT !.bufStart = s.bufStart + r.advance,
                           !.end      = s.end + r.advance,
                           !.start    = IF r.track # -1
                                        THEN s.end + r.track ELSE s.start]
        read  == IF s.bufEnd < Len(d)
                 THEN [s EXCEPT !.bufEnd = Min(Len(d), s.bufEnd + Head(ns))]
                 ELSE [s EXCEPT !.eof = TRUE]
        read1 == IF s1.bufEnd < Len(d)
                 THEN [s1 EXCEPT !.bufEnd = Min(Len(d), s1.bufEnd + Head(ns))]
                 ELSE [s1 EXCEPT !.eof = TRUE]
        short == [s |-> s, ok |-> FALSE, text |-> <<>>, short |-> TRUE, left |-> ns]
    IN  IF s.bufEnd > s.bufStart \/ atEOF
        THEN IF r.err # ""
             THEN [s |-> [s1 EXCEPT !.bufStart = s.bufStart, !.err = r.err],
                   ok |-> FALSE, text |-> <<>>, short |-> FALSE, left |-> ns]
             ELSE IF r.hasToken
             THEN [s |-> s1, ok |-> TRUE, text |-> r.token, short |-> FALSE, left |-> ns]
             ELSE IF atEOF
             THEN [s |-> s1, ok |-> FALSE, text |-> <<>>, short |-> FALSE, left |-> ns]
             ELSE IF ns = <<>> THEN short
             ELSE bufioScanReads(kind, d, read1, Tail(ns))
        ELSE IF ns = <<>> THEN short
        ELSE bufioScanReads(kind, d, read, Tail(ns))
    : r \in {Split(kind, Slice(d, s.bufStart, s.bufEnd), s.eof \/ s.err # "")}})

\* the Reads of one call of Scan deliver exactly the sizes ns
scanWith(ns) == bufioScanReads("html", doc, sc, ns)

ChunkInit ==
    /\ pc = "chunks"
    /\ doc \in ChunkDocs
    /\ sc = newScanner
    /\ tokens = <<>>
    /\ SrcIdle
    /\ PipeIdle
    /\ SysIdle

\* comments.Scan() returns true after Reads of some sizes
ChunkToken ==
    /\ pc = "chunks"
    /\ \E ns \in SeqsUpTo(ChunkSizes, MaxReads) :
          \E r \in {scanWith(ns)} :
              /\ ~r.short /\ r.left = <<>>
              /\ r.ok
              /\ sc' = r.s
              /\ tokens' = Append(tokens, [start |-> r.s.start, end |-> r.s.end,
                                           text |-> r.text])
    /\ UNCHANGED <<pc, doc>>
    /\ UNCHANGED srcVars
    /\ UNCHANGED pipeVars
    /\ UNCHANGED sysVars

\* comments.Scan() returns false after Reads of some sizes
ChunkEnd ==
    /\ pc = "chunks"
    /\ \E ns \in SeqsUpTo(ChunkSizes, MaxReads) :
          \E r \in {scanWith(ns)} :
              /\ ~r.short /\ r.left = <<>>
              /\ ~r.ok
              /\ sc' = r.s
    /\ pc' = "chunked"
    /\ UNCHANGED <<doc, tokens>>
    /\ UNCHANGED srcVars
    /\ UNCHANGED pipeVars
    /\ UNCHANGED sysVars

ChunkNext == ChunkToken \/ ChunkEnd

SpecChunk == ChunkInit /\ [][ChunkNext]_vars

-----------------------------------------------------------------------------
(* processFile over Go and Json markers whose object path may lack "#" *)

MaxPathSegs == 3

openGoBare   == <<"<", "!", "-", "-", " ", "g", "o", "q", "u", "o", "t", "e", " ", "p", ".", "g", "o", " ", "-", "-", ">">>
openJsonBare == <<"<", "!", "-", "-", " ", "j", "s", "o", "n", "q", "u", "o", "t", "e", " ", "j", " ", "-", "-", ">">>

PathSegments == {openGo, openGoBare, openJson, openJsonBare, closeG, closeJ, <<"x">>}

BarePathDocs == {Flatten(ls) : ls \in SeqsUpTo(PathSegments, MaxPathSegs)}

BarePathInit ==
    /\ pc = "read"
    /\ doc \in BarePathDocs
    /\ sc = newScanner
    /\ tokens = <<>>
    /\ fs = MixFileSystem
    /\ quotes = <<>> /\ expanded = <<>> /\ opened = <<>>
    /\ out = <<>> /\ tempFn = "" /\ perr = nil /\ exits = <<>>
    /\ SrcIdle
    /\ SysIdle

SpecBarePath == BarePathInit /\ [][MixNext]_vars

-----------------------------------------------------------------------------
(* processFiles: the main loop and its worker goroutines *)

MaxFiles == 3

\* the capacity of resultCh
resultChCap == 1

\* document paths, in the order of Go's string comparison
allPaths == << <<"a">>, <<"a", "b">>, <<"b">>, <<"b", "a">> >>

Files == {allPaths[i] : i \in 1..MaxFiles}

byteOrd(c) == IF c = "a" THEN 1 ELSE 2

RECURSIVE strLess(_, _)
\* a < b on Go strings
strLess(a, b) ==
    IF b = <<>> THEN FALSE
    ELSE IF a = <<>> THEN TRUE
    ELSE IF Head(a) # Head(b) THEN byteOrd(Head(a)) < byteOrd(Head(b))
    ELSE strLess(Tail(a), Tail(b))

\* ctx.Err() of a cancelled context
ctxCanceled == <<"context canceled">>

\* errors.Is(e, context.Canceled)
isCanceled(e) == e # nil /\ e[Len(e)] = "context canceled"

noResult == [fn |-> <<>>, tempFn |-> <<>>, err |-> nil]

\* What processFile can return for the document fn: a temp file name when
\* the rewritten document differs, "" when it does not, an error when the
\* document fails; with the context done, also the error of the context
processFileResults(fn, st, done) ==
    {CASE st = "changed" -> [fn |-> fn, tempFn |-> <<"tmp">> \o fn, err |-> nil]
       [] st = "same"    -> [fn |-> fn, tempFn |-> <<>>, err |-> nil]
       [] st = "fail"    -> [fn |-> fn, tempFn |-> <<>>,
                             err |-> <<"readPullQuotes", fn>>]}
    \cup (IF done
          THEN {[fn |-> fn, tempFn |-> <<>>,
                 err |-> <<"expandedPullQuotes">> \o ctxCanceled]}
          ELSE {})

\* the failure reported is the first one
replaces_First(e, efn, fn) == e = nil

\* "err == nil || res.fn < errFn"
replaces(e, efn, fn) == e = nil \/ strLess(fn, efn)

\* the switch on a received result; st is [err, errFn, otherErrs, moves]
takeResult(st, res) ==
    IF st.err = nil /\ res.err = nil
    THEN IF res.tempFn # <<>>
         THEN [st EXCEPT !.moves = Append(@, <<res.tempFn, res.fn>>)]
         ELSE st
    ELSE IF res.err # nil /\ ~isCanceled(res.err)
    THEN IF replaces(st.err, st.errFn, res.fn)
         THEN [st EXCEPT !.otherErrs = @ + 1, !.err = res.err, !.errFn = res.fn]
         ELSE [st EXCEPT !.otherErrs = @ + 1]
    ELSE st

\* the loop ends as soon as the file channel is closed
loopCond_NoWait(nilFns, n) == ~nilFns

\* "fns != nil || inFlight > 0"
loopCond(nilFns, n) == ~nilFns \/ n > 0

\* the error of a failed run
failedError(efn, others, e) ==
    IF others > 0
    THEN [msg |-> "failed (along with others)", fn |-> efn, others |-> others,
          err |-> e]
    ELSE [msg |-> "failed", fn |-> efn, others |-> 0, err |-> e]

errCheckMode == [msg |-> "files changed"]

returnedNil == [msg |-> "nil"]

\* check mode is ignored
stopsForCheck_Never(check, ms) == FALSE

\* "checkMode && len(moves) > 0"
stopsForCheck(check, ms) == check /\ Len(ms) > 0

FilesInit ==
    /\ pc = "loop"
    /\ checkMode \in BOOLEAN
    /\ docState \in [Files -> {"same", "changed", "fail"}]
    /\ ctxDone = FALSE
    /\ fns \in {q \in [1..MaxFiles -> Files] : \A i, j \in 1..MaxFiles : q[i] = q[j] => i = j}
    /\ fnsNil = FALSE
    /\ workers = [fn \in Files |-> [st |-> "none", res |-> noResult]]
    /\ resultCh = <<>>
    /\ inFlight = 0 /\ err = nil /\ errFn = <<>> /\ otherErrs = 0
    /\ moves = <<>> /\ ret = noReturn /\ renamed = {}
    /\ ScanIdle /\ SrcIdle /\ PipeIdle /\ ListIdle

\* the context of run is cancelled: by a signal or by a listing error
Cancel ==
    /\ pc = "loop"
    /\ ~ctxDone
    /\ ctxDone' = TRUE
    /\ UNCHANGED <<pc, checkMode, docState, fns, fnsNil, workers, resultCh,
                   inFlight, err, errFn, otherErrs, moves, ret, renamed>>
    /\ UNCHANGED <<scanVars, srcVars, pipeVars, listVars>>

\* listFiles gives up on the paths it has not sent and closes the channel
ListerAbandon ==
    /\ pc = "loop"
    /\ ctxDone
    /\ fns # <<>>
    /\ fns' = <<>>
    /\ UNCHANGED <<pc, checkMode, docState, ctxDone, fnsNil, workers, resultCh,
                   inFlight, err, errFn, otherErrs, moves, ret, renamed>>
    /\ UNCHANGED <<scanVars, srcVars, pipeVars, listVars>>

\* "case <-ctx.Done()"
MainCtxDone ==
    /\ pc = "loop"
    /\ loopCond(fnsNil, inFlight)
    /\ ctxDone
    /\ err' = ctxCanceled
    /\ fnsNil' = TRUE
    /\ UNCHANGED <<pc, checkMode, docState, ctxDone, fns, workers, resultCh,
                   inFlight, errFn, otherErrs, moves, ret, renamed>>
    /\ UNCHANGED <<scanVars, srcVars, pipeVars, listVars>>

\* "case fn, ok := <-fns" with ok: a worker is started for the path
MainRecvFn ==
    /\ pc = "loop"
    /\ loopCond(fnsNil, inFlight)
    /\ ~fnsNil
    /\ fns # <<>>
    /\ fns' = Tail(fns)
    /\ inFlight' = inFlight + 1
    /\ workers' = [workers EXCEPT ![Head(fns)].st = "run"]
    /\ UNCHANGED <<pc, checkMode, docState, ctxDone, fnsNil, resultCh,
                   err, errFn, otherErrs, moves, ret, renamed>>
    /\ UNCHANGED <<scanVars, srcVars, pipeVars, listVars>>

\* "case fn, ok := <-fns" with !ok: the channel is closed
MainRecvClosed ==
    /\ pc = "loop"
    /\ loopCond(fnsNil, inFlight)
    /\ ~fnsNil
    /\ fns = <<>>
    /\ fnsNil' = TRUE
    /\ UNCHANGED <<pc, checkMode, docState, ctxDone, fns, workers, resultCh,
                   inFlight, err, errFn, otherErrs, moves, ret, renamed>>
    /\ UNCHANGED <<scanVars, srcVars, pipeVars, listVars>>

\* "case res := <-resultCh"
MainRecvResult ==
    /\ pc = "loop"
    /\ loopCond(fnsNil, inFlight)
    /\ resultCh # <<>>
    /\ resultCh' = Tail(resultCh)
    /\ inFlight' = inFlight - 1
    /\ \E st \in {takeResult([err |-> err, errFn |-> errFn,
                              otherErrs |-> otherErrs, moves |-> moves],
                             Head(resultCh))} :
          /\ err' = st.err
          /\ errFn' = st.errFn
          /\ otherErrs' = st.otherErrs
          /\ moves' = st.moves
    /\ workers' = [workers EXCEPT ![Head(resultCh).fn].st = "consumed"]
    /\ UNCHANGED <<pc, checkMode, docState, ctxDone, fns, fnsNil, ret, renamed>>
    /\ UNCHANGED <<scanVars, srcVars, pipeVars, listVars>>

\* the worker's processFile returns
WorkerFinish(fn) ==
    /\ workers[fn].st = "run"
    /\ \E res \in processFileResults(fn, docState[fn], ctxDone) :
          workers' = [workers EXCEPT ![fn] = [st |-> "send", res |-> res]]
    /\ UNCHANGED <<pc, checkMode, docState, ctxDone, fns, fnsNil, resultCh,
                   inFlight, err, errFn, otherErrs, moves, ret, renamed>>
    /\ UNCHANGED <<scanVars, srcVars, pipeVars, listVars>>

\* the worker's "case resultCh <- result{fn, tempFn, err}"
WorkerSend(fn) ==
    /\ workers[fn].st = "send"
    /\ Len(resultCh) < resultChCap
    /\ resultCh' = Append(resultCh, workers[fn].res)
    /\ workers' = [workers EXCEPT ![fn].st = "sent"]
    /\ UNCHANGED <<pc, checkMode, docState, ctxDone, fns, fnsNil,
                   inFlight, err, errFn, otherErrs, moves, ret, renamed>>
    /\ UNCHANGED <<scanVars, srcVars, pipeVars, listVars>>

\* the worker's "case <-processCtx.Done()": processCtx is done when the
\* context of run is, or when processFiles has returned
WorkerDrop(fn) ==
    /\ workers[fn].st = "send"
    /\ ctxDone \/ pc = "returned"
    /\ workers' = [workers EXCEPT ![fn].st = "dropped"]
    /\ UNCHANGED <<pc, checkMode, docState, ctxDone, fns, fnsNil, resultCh,
                   inFlight, err, errFn, otherErrs, moves, ret, renamed>>
    /\ UNCHANGED <<scanVars, srcVars, pipeVars, listVars>>

\* after the loop: the error of the run, the check mode result, or the
\* renames, of which any one may fail
Return ==
    /\ pc = "loop"
    /\ ~loopCond(fnsNil, inFlight)
    /\ pc' = "returned"
    /\ IF err # nil
       THEN ret' = failedError(errFn, otherErrs, err) /\ renamed' = renamed
       ELSE IF stopsForCheck(checkMode, moves)
       THEN ret' = errCheckMode /\ renamed' = renamed
       ELSE \E n \in 0..Len(moves) :
               /\ renamed' = {moves[i][2] : i \in 1..n}
               /\ ret' = IF n < Len(moves)
                         THEN [msg |-> "os.Rename", fn |-> moves[n + 1][2]]
                         ELSE returnedNil
    /\ UNCHANGED <<checkMode, docState, ctxDone, fns, fnsNil, workers, resultCh,
                   inFlight, err, errFn, otherErrs, moves>>
    /\ UNCHANGED <<scanVars, srcVars, pipeVars, listVars>>

FilesNext ==
    \/ Cancel
    \/ ListerAbandon
    \/ MainCtxDone
    \/ MainRecvFn
    \/ MainRecvClosed
    \/ MainRecvResult
    \/ \E fn \in Files : WorkerFinish(fn)
    \/ \E fn \in Files : WorkerSend(fn)
    \/ \E fn \in Files : WorkerDrop(fn)
    \/ Return

SpecFiles == FilesInit /\ [][FilesNext]_vars

\* A goroutine that can take a step takes one (WF), and a select picks at
\* random among its ready cases, so that a case that is ready again and
\* again is taken (SF). Nothing obliges the context to be cancelled.
FilesFairness ==
    /\ WF_vars(Return)
    /\ SF_vars(MainCtxDone)
    /\ SF_vars(MainRecvFn)
    /\ SF_vars(MainRecvClosed)
    /\ SF_vars(MainRecvResult)
    /\ \A fn \in Files :
          /\ WF_vars(WorkerFinish(fn))
          /\ SF_vars(WorkerSend(fn))
          /\ SF_vars(WorkerDrop(fn))

SpecFilesFair == SpecFiles /\ FilesFairness

-----------------------------------------------------------------------------
(* listFiles: the stdin scanner, the directory walker and the merger *)

MaxArgs == 2
MaxStdin == 2

\* os.Getwd()
wd == <<"/", "w">>

\* the paths a caller names: relative, absolute, or not clean
relA == <<"a">>
relB == <<"b">>
absA == Join(wd, relA)
absB == Join(wd, relB)

dotA == <<".", "/", "a">>

NamedPaths == {dotA, absA, relB}

\* the .md files filepath.Walk finds under wd, in its order
WalkedPaths == <<absA, absB>>

\* filepath.IsAbs
IsAbs(path) == path # <<>> /\ Head(path) = "/"

RECURSIVE splitPath(_)
\* the elements of path between its separators
splitPath(path) == Only({
    IF i = -1 THEN <<path>>
    ELSE Only({<<Slice(path, 0, i)>> \o splitPath(rest)
               : rest \in {Slice(path, i + 1, Len(path))}})
    : i \in {Index(path, <<"/">>)}})

RECURSIVE cleanElems(_, _, _)
\* Clean's pass over the elements es: empty elements and "." are dropped,
\* ".." removes the element before it, or is dropped at the root, or kept
cleanElems(es, kept, rooted) ==
    IF es = <<>> THEN kept
    ELSE Only({cleanElems(Tail(es), k, rooted) : k \in {
             IF Head(es) = <<>> \/ Head(es) = <<".">> THEN kept
             ELSE IF Head(es) = <<".", ".">>
             THEN IF kept # <<>> /\ kept[Len(kept)] # <<".", ".">>
                  THEN SubSeq(kept, 1, Len(kept) - 1)
                  ELSE IF rooted THEN kept ELSE Append(kept, Head(es))
             ELSE Append(kept, Head(es))}})

\* filepath.Clean
Clean(path) == Only({
    Only({IF IsAbs(path) THEN <<"/">> \o body
          ELSE IF body = <<>> THEN <<".">> ELSE body
          : body \in {Flatten([i \in 1..Len(kept) |->
                          IF i = 1 THEN kept[i] ELSE <<"/">> \o kept[i]])}})
    : kept \in {cleanElems(splitPath(path), <<>>, IsAbs(path))}})

\* every path is taken as it is
standardize_Raw(path) == path

\* standardize of the merger
standardize(path) ==
    Only({Clean(p) : p \in {IF ~IsAbs(path) THEN Join(wd, path) ELSE path}})

\* a sender never gives up
abandons_Never(done) == FALSE

\* "case <-ctx.Done()" next to a send: ready once the context is done
abandons(done) == done

\* "select { case errC <- err: default: }"
trySend(ch, e) ==
    IF Len(ch.buf) < 1 /\ ~ch.closed THEN [ch EXCEPT !.buf = Append(@, e)] ELSE ch

\* the merger after submit(path) was called from the place from: it returns
\* at once for a path it has seen, and otherwise waits in submit's select
submitCall(path, from) ==
    IF path \in seenPaths
    THEN [pc |-> from, val |-> <<>>, from |-> from]
    ELSE [pc |-> "submit", val |-> path, from |-> from]

ListInit ==
    /\ pc = "getwd"
    /\ lctxDone = FALSE
    /\ args \in SeqsUpTo(NamedPaths, MaxArgs)
    /\ \E r \in BOOLEAN :
          /\ stdin \in IF r THEN SeqsUpTo(NamedPaths, MaxStdin) ELSE {<<>>}
          /\ scanned = IF r THEN "open" ELSE "nil"
    /\ \E walk \in BOOLEAN :
          /\ tree = IF walk THEN WalkedPaths ELSE <<>>
          /\ walked = IF walk THEN "open" ELSE "nil"
    /\ scanner = notStarted /\ walker = notStarted
    /\ merger = [pc |-> "off", val |-> <<>>, from |-> "off"]
    /\ seenPaths = {}
    /\ merged = [buf |-> <<>>, cap |-> Len(args) + 1, closed |-> FALSE]
    /\ errC = [buf |-> <<>>, closed |-> FALSE]
    /\ ScanIdle /\ SrcIdle /\ PipeIdle /\ FilesIdle

\* os.Getwd and the start of the goroutines; when it fails the error is
\* sent and both channels are closed
Getwd ==
    /\ pc = "getwd"
    /\ pc' = "list"
    /\ \E ok \in BOOLEAN :
          IF ok
          THEN /\ scanner' = [pc |-> IF scanned = "open" THEN "scan" ELSE "off",
                              val |-> <<>>]
               /\ walker' = [pc |-> IF walked = "open" THEN "walk" ELSE "off",
                             val |-> <<>>]
               /\ merger' = [pc |-> "args", val |-> <<>>, from |-> "args"]
               /\ UNCHANGED <<merged, errC, scanned, walked>>
          ELSE /\ errC' = [buf |-> << <<"getwd">> >>, closed |-> TRUE]
               /\ merged' = [merged EXCEPT !.closed = TRUE]
               /\ scanned' = "nil" /\ walked' = "nil"
               /\ merger' = [pc |-> "done", val |-> <<>>, from |-> "off"]
               /\ UNCHANGED <<scanner, walker>>
    /\ UNCHANGED <<lctxDone, args, stdin, tree, seenPaths>>
    /\ UNCHANGED <<scanVars, srcVars, pipeVars, filesVars>>

\* the context of run is cancelled, and with it the context of listFiles
ListCancel ==
    /\ pc = "list"
    /\ ~lctxDone
    /\ lctxDone' = TRUE
    /\ UNCHANGED <<pc, args, stdin, tree, scanner, walker, merger, seenPaths,
                   scanned, walked, merged, errC>>
    /\ UNCHANGED <<scanVars, srcVars, pipeVars, filesVars>>

\* scanner.Scan() returns true
StdinLine ==
    /\ scanner.pc = "scan"
    /\ stdin # <<>>
    /\ scanner' = [pc |-> "send", val |-> Head(stdin)]
    /\ stdin' = Tail(stdin)
    /\ UNCHANGED <<pc, lctxDone, args, tree, walker, merger, seenPaths,
                   scanned, walked, merged, errC>>
    /\ UNCHANGED <<scanVars, srcVars, pipeVars, filesVars>>

\* the scanner's "case <-ctx.Done()": the line is given up
StdinAbandon ==
    /\ scanner.pc = "send"
    /\ abandons(lctxDone)
    /\ scanner' = [pc |-> "scan", val |-> <<>>]
    /\ UNCHANGED <<pc, lctxDone, args, stdin, tree, walker, merger, seenPaths,
                   scanned, walked, merged, errC>>
    /\ UNCHANGED <<scanVars, srcVars, pipeVars, filesVars>>

\* scanner.Scan() returns false: at the end of the input, or at any point
\* with a read error, which cancels the context and is sent if errC has room
StdinEnd ==
    /\ scanner.pc = "scan"
    /\ \E failed \in BOOLEAN :
          /\ ~failed => stdin = <<>>
          /\ lctxDone' = (lctxDone \/ failed)
          /\ errC' = IF failed THEN trySend(errC, <<"scanner">>) ELSE errC
    /\ scanned' = "closed"
    /\ scanner' = [pc |-> "done", val |-> <<>>]
    /\ UNCHANGED <<pc, args, stdin, tree, walker, merger, seenPaths,
                   walked, merged>>
    /\ UNCHANGED <<scanVars, srcVars, pipeVars, filesVars>>

\* the walk function is called for the next .md file
WalkVisit ==
    /\ walker.pc = "walk"
    /\ tree # <<>>
    /\ walker' = [pc |-> "send", val |-> Head(tree)]
    /\ tree' = Tail(tree)
    /\ UNCHANGED <<pc, lctxDone, args, stdin, scanner, merger, seenPaths,
                   scanned, walked, merged, errC>>
    /\ UNCHANGED <<scanVars, srcVars, pipeVars, filesVars>>

\* the walker's "case <-ctx.Done()": the walk ends with ctx.Err(), which is
\* sent if errC has room, and walked is closed
WalkAbandon ==
    /\ walker.pc = "send"
    /\ abandons(lctxDone)
    /\ errC' = trySend(errC, ctxCanceled)
    /\ walked' = "closed"
    /\ walker' = [pc |-> "done", val |-> <<>>]
    /\ UNCHANGED <<pc, lctxDone, args, stdin, tree, scanner, merger, seenPaths,
                   scanned, merged>>
    /\ UNCHANGED <<scanVars, srcVars, pipeVars, filesVars>>

\* filepath.Walk returns: after the last file, or at any point with an
\* error of the file system, which cancels the context
WalkEnd ==
    /\ walker.pc = "walk"
    /\ \E failed \in BOOLEAN :
          /\ ~failed => tree = <<>>
          /\ lctxDone' = (lctxDone \/ failed)
          /\ errC' = IF failed THEN trySend(errC, <<"walk">>) ELSE errC
    /\ walked' = "closed"
    /\ walker' = [pc |-> "done", val |-> <<>>]
    /\ UNCHANGED <<pc, args, stdin, tree, scanner, merger, seenPaths,
                   scanned, merged>>
    /\ UNCHANGED <<scanVars, srcVars, pipeVars, filesVars>>

\* "for _, fn := range fns { submit(standardize(fn)) }"
MergerArg ==
    /\ merger.pc = "args"
    /\ IF args # <<>>
       THEN /\ merger' = submitCall(standardize(Head(args)), "args")
            /\ args' = Tail(args)
       ELSE /\ merger' = [pc |-> "loop", val |-> <<>>, from |-> "loop"]
            /\ args' = args
    /\ UNCHANGED <<pc, lctxDone, stdin, tree, scanner, walker, seenPaths,
                   scanned, walked, merged, errC>>
    /\ UNCHANGED <<scanVars, srcVars, pipeVars, filesVars>>

\* submit's "case merged <- path"
MergerSend ==
    /\ merger.pc = "submit"
    /\ Len(merged.buf) < merged.cap
    /\ merged' = [merged EXCEPT !.buf = Append(@, merger.val)]
    /\ seenPaths' = seenPaths \cup {merger.val}
    /\ merger' = [pc |-> merger.from, val |-> <<>>, from |-> merger.from]
    /\ UNCHANGED <<pc, lctxDone, args, stdin, tree, scanner, walker,
                   scanned, walked, errC>>
    /\ UNCHANGED <<scanVars, srcVars, pipeVars, filesVars>>

\* submit's "case <-ctx.Done()"
MergerAbandon ==
    /\ merger.pc = "submit"
    /\ abandons(lctxDone)
    /\ merger' = [pc |-> merger.from, val |-> <<>>, from |-> merger.from]
    /\ UNCHANGED <<pc, lctxDone, args, stdin, tree, scanner, walker, seenPaths,
                   scanned, walked, merged, errC>>
    /\ UNCHANGED <<scanVars, srcVars, pipeVars, filesVars>>

\* the select loop's "case <-ctx.Done()", and the end of the loop when both
\* channels are nil
MergerLeave ==
    /\ merger.pc = "loop"
    /\ lctxDone \/ (scanned = "nil" /\ walked = "nil")
    /\ merger' = [pc |-> "wait", val |-> <<>>, from |-> "wait"]
    /\ UNCHANGED <<pc, lctxDone, args, stdin, tree, scanner, walker, seenPaths,
                   scanned, walked, merged, errC>>
    /\ UNCHANGED <<scanVars, srcVars, pipeVars, filesVars>>

\* "case s, ok := <-scanned": a line of the scanner, or the closed channel
MergerRecvScanned ==
    /\ merger.pc = "loop"
    /\ \/ /\ scanned = "open"
          /\ scanner.pc = "send"
          /\ merger' = submitCall(standardize(scanner.val), "loop")
          /\ scanner' = [pc |-> "scan", val |-> <<>>]
          /\ UNCHANGED scanned
       \/ /\ scanned = "closed"
          /\ scanned' = "nil"
          /\ UNCHANGED <<merger, scanner>>
    /\ UNCHANGED <<pc, lctxDone, args, stdin, tree, walker, seenPaths,
                   walked, merged, errC>>
    /\ UNCHANGED <<scanVars, srcVars, pipeVars, filesVars>>

\* "case s, ok := <-walked": a path of the walker, or the closed channel
MergerRecvWalked ==
    /\ merger.pc = "loop"
    /\ \/ /\ walked = "open"
          /\ walker.pc = "send"
          /\ merger' = submitCall(walker.val, "loop")
          /\ walker' = [pc |-> "walk", val |-> <<>>]
          /\ UNCHANGED walked
       \/ /\ walked = "closed"
          /\ walked' = "nil"
          /\ UNCHANGED <<merger, walker>>
    /\ UNCHANGED <<pc, lctxDone, args, stdin, tree, scanner, seenPaths,
                   scanned, merged, errC>>
    /\ UNCHANGED <<scanVars, srcVars, pipeVars, filesVars>>

\* wg.Wait() returns, both channels are closed and the deferred cncl runs
MergerClose ==
    /\ merger.pc = "wait"
    /\ scanner.pc \in {"off", "done"}
    /\ walker.pc \in {"off", "done"}
    /\ merged' = [merged EXCEPT !.closed = TRUE]
    /\ errC' = [errC EXCEPT !.closed = TRUE]
    /\ lctxDone' = TRUE
    /\ merger' = [pc |-> "done", val |-> <<>>, from |-> "done"]
    /\ UNCHANGED <<pc, args, stdin, tree, scanner, walker, seenPaths,
                   scanned, walked>>
    /\ UNCHANGED <<scanVars, srcVars, pipeVars, filesVars>>

\* processFiles receives a path from merged
RecvPath ==
    /\ pc = "list"
    /\ merged.buf # <<>>
    /\ merged' = [merged EXCEPT !.buf = Tail(@)]
    /\ UNCHANGED <<pc, lctxDone, args, stdin, tree, scanner, walker, merger,
                   seenPaths, scanned, walked, errC>>
    /\ UNCHANGED <<scanVars, srcVars, pipeVars, filesVars>>

\* run receives the error from errC and cancels its context
RecvErr ==
    /\ pc = "list"
    /\ errC.buf # <<>>
    /\ errC' = [errC EXCEPT !.buf = Tail(@)]
    /\ lctxDone' = TRUE
    /\ UNCHANGED <<pc, args, stdin, tree, scanner, walker, merger,
                   seenPaths, scanned, walked, merged>>
    /\ UNCHANGED <<scanVars, srcVars, pipeVars, filesVars>>

ListNext ==
    \/ Getwd
    \/ ListCancel
    \/ StdinLine
    \/ StdinAbandon
    \/ StdinEnd
    \/ WalkVisit
    \/ WalkAbandon
    \/ WalkEnd
    \/ MergerArg
    \/ MergerSend
    \/ MergerAbandon
    \/ MergerLeave
    \/ MergerRecvScanned
    \/ MergerRecvWalked
    \/ MergerClose
    \/ RecvPath
    \/ RecvErr

SpecList == ListInit /\ [][ListNext]_vars

\* every goroutine of listFiles that can take a step takes one; neither the
\* cancellation nor the receivers of the two channels are obliged to act
ListFairness ==
    /\ WF_vars(Getwd)
    /\ WF_vars(StdinLine) /\ WF_vars(StdinAbandon) /\ WF_vars(StdinEnd)
    /\ WF_vars(WalkVisit) /\ WF_vars(WalkAbandon) /\ WF_vars(WalkEnd)
    /\ WF_vars(MergerArg) /\ WF_vars(MergerSend) /\ WF_vars(MergerAbandon)
    /\ WF_vars(MergerLeave) /\ WF_vars(MergerRecvScanned)
    /\ WF_vars(MergerRecvWalked) /\ WF_vars(MergerClose)

SpecListFair == SpecList /\ ListFairness

-----------------------------------------------------------------------------
(* Closing comments *)

\* the kind a closing comment names, "" for any other comment
closerKind(text) ==
    CASE text = closeP -> "pull"
      [] text = closeG -> "go"
      [] text = closeJ -> "json"
      [] OTHER         -> ""

lastToken(ts) == ts[Len(ts)]

\* C11: a closing comment is accepted exactly when the most recently opened
\* marker is still unclosed and of the comment's kind; then that marker's
\* endIdx alone is set, to the comment's offset; otherwise readPullQuotes
\* stops with an "unexpected" error and returns no markers
C11_ClosingRule ==
    [][(/\ Len(tokens') = Len(tokens) + 1
        /\ closerKind(lastToken(tokens').text) # "")
       => LET tok == lastToken(tokens')
              l   == Len(quotes)
          IN  IF /\ l >= 1
                 /\ quotes[l].endIdx = idxNoEnd
                 /\ quotes[l].originalTag = closerKind(tok.text)
              THEN /\ perr' = nil
                   /\ pc' = "reading"
                   /\ quotes' = [quotes EXCEPT ![l].endIdx = tok.start]
              ELSE /\ perr' = <<"unexpected", Slice(tok.text, 5, Len(tok.text) - 4),
                                tok.start>>
                   /\ pc' = "readDone"
                   /\ quotes' = <<>>]_vars

\* two markers of different kinds, each closed by its own closing comment
C11_Witness ==
    /\ pc = "readDone"
    /\ perr = nil
    /\ Len(quotes) = 2
    /\ quotes[1].originalTag # quotes[2].originalTag
    /\ quotes[1].endIdx # idxNoEnd
    /\ quotes[2].endIdx # idxNoEnd
    /\ Len(tokens) = 4

-----------------------------------------------------------------------------
(* The options a marker comment supplies, read off its text *)

flagKeys == {keyIncludeGroup, keyNoReformat}

\* option k is written in the comment: "k=" after a space for a key that
\* takes a value, the bare word k for a flag
supplies(text, k) ==
    IF k \in flagKeys
    THEN Index(text, <<" ">> \o k \o <<" ">>) # -1
    ELSE Index(text, <<" ">> \o k \o <<"=">>) # -1

\* the tag the comment opens with
hasTag(text, tag) == HasPrefixAt(text, 0, commentOpen \o <<" ">> \o tag \o <<" ">>)

\* the object path keys the comment supplies, by key or in first position
\* after a goquote or jsonquote tag
hasGoPath(text)   == supplies(text, keyGoPath) \/ hasTag(text, headGo)
hasJSONPath(text) == supplies(text, keyJSONPath) \/ hasTag(text, headJson)

isMarker(text) ==
    hasTag(text, tagPullquote) \/ hasTag(text, headGo) \/ hasTag(text, headJson)

\* a marker of the Pull kind: no object path makes it a Go or Json marker
isPull(text) == isMarker(text) /\ ~hasGoPath(text) /\ ~hasJSONPath(text)

\* the first of src, start, end the comment does not supply (<<>>: none)
firstMissing(text) ==
    IF ~supplies(text, keySrc) THEN keySrc
    ELSE IF ~supplies(text, keyStart) THEN keyStart
    ELSE IF ~supplies(text, keyEnd) THEN keyEnd
    ELSE <<>>

\* C19: a Pull marker that lacks src, start or end fails validation with
\* "<key> cannot be unset" for the first key missing in the order src, start,
\* end, prefixed by the offset of the marker in the document, and
\* readPullQuotes returns no markers
C19_RequiredKeys ==
    (/\ tokens # <<>>
     /\ isPull(lastToken(tokens).text)
     /\ firstMissing(lastToken(tokens).text) # <<>>)
    => /\ pc = "readDone"
       /\ perr = <<"validating pullquote at offset", lastToken(tokens).start,
                   "cannot be unset", firstMissing(lastToken(tokens).text)>>
       /\ quotes = <<>>

\* a marker lacking start after a valid marker, at an offset beyond 0
C19_Witness ==
    /\ Len(tokens) = 2
    /\ tokens[1].text = openA
    /\ tokens[2].text = openLacking
    /\ tokens[2].start > 0
    /\ perr = <<"validating pullquote at offset", tokens[2].start,
                "cannot be unset", keyStart>>
    /\ quotes = <<>>

-----------------------------------------------------------------------------
(* The key combinations of the three kinds of marker *)

\* every option key the comment supplies
keysOf(text) ==
    {k \in AllKeys \ {keyGoPath, keyJSONPath} : supplies(text, k)}
    \cup (IF hasGoPath(text) THEN {keyGoPath} ELSE {})
    \cup (IF hasJSONPath(text) THEN {keyJSONPath} ELSE {})

pullOnlyKeys == {keySrc, keyStart, keyEnd, keyEndCount}

\* the comment is a Pull marker with src, start and end and no object path
\* or flag
pullShape(text) ==
    /\ isPull(text)
    /\ {keySrc, keyStart, keyEnd} \subseteq keysOf(text)
    /\ keysOf(text) \cap flagKeys = {}

\* the comment is a Go marker with none of the keys of a Pull marker
goShape(text) ==
    /\ hasGoPath(text) /\ ~hasJSONPath(text)
    /\ keysOf(text) \cap pullOnlyKeys = {}

\* the comment is a Json marker with none of the keys of a Pull marker and
\* without the flag of Go markers
jsonShape(text) ==
    /\ hasJSONPath(text) /\ ~hasGoPath(text)
    /\ keysOf(text) \cap (pullOnlyKeys \cup {keyIncludeGroup}) = {}

exclusiveShape(text) == pullShape(text) \/ goShape(text) \/ jsonShape(text)

\* the marker that was built from the comment has its kind's fields and
\* none of another kind's
wellShaped(pq, text) ==
    \/ /\ pullShape(text)
       /\ pq.quoteType = ""
       /\ pq.src # <<>> /\ pq.objPath = <<>> /\ pq.flags = {}
    \/ /\ goShape(text)
       /\ pq.quoteType = "go"
       /\ pq.objPath # <<>> /\ pq.src = <<>> /\ pq.endCount = 0
       /\ pq.start = nilRegexp /\ pq.end = nilRegexp
    \/ /\ jsonShape(text)
       /\ pq.quoteType = "json"
       /\ pq.objPath # <<>> /\ pq.src = <<>> /\ pq.endCount = 0
       /\ pq.start = nilRegexp /\ pq.end = nilRegexp
       /\ includeGroup \notin pq.flags

markerTokens(ts) == SelectSeq(ts, LAMBDA t : isMarker(t.text))

\* the kinds a comment's object paths can make it, and what each kind allows
kindsOf(text) ==
    (IF hasGoPath(text) THEN {"goquote"} ELSE {})
    \cup (IF hasJSONPath(text) THEN {"jsonquote"} ELSE {})
    \cup (IF isPull(text) THEN {"pullquote"} ELSE {})

allowedKeys(kind) ==
    {keyFmt, keyLang} \cup
    CASE kind = "pullquote" -> pullOnlyKeys
      [] kind = "goquote"   -> {keyGoPath, keyNoReformat, keyIncludeGroup}
      [] kind = "jsonquote" -> {keyJSONPath, keyNoReformat}

\* readPullQuotes has returned the invalid-keys error
invalidKeysError == Len(perr) >= 4 /\ perr[4] = "invalid keys"

\* every returned marker is of one of the three exclusive shapes
markersExclusive ==
    (pc = "readDone" /\ perr = nil)
    => /\ Len(quotes) = Len(markerTokens(tokens))
       /\ \A i \in 1..Len(quotes) :
             wellShaped(quotes[i], markerTokens(tokens)[i].text)

\* C20 as stated: every returned marker is a Pull marker with src, start and
\* end and no object path or flag, or a Go or Json marker with its object path
\* and none of src, start, end, endcount; any other key combination is
\* rejected with an invalid-keys error
C20_Literal ==
    /\ markersExclusive
    /\ (/\ tokens # <<>>
        /\ isMarker(lastToken(tokens).text)
        /\ ~exclusiveShape(lastToken(tokens).text))
       => quotes = <<>> /\ invalidKeysError

\* C20: every returned marker is of one of the three exclusive shapes; any
\* other key combination is rejected: with the "cannot be unset" error when a
\* Pull marker lacks src, start or end, and otherwise with the invalid-keys
\* error that names the keys its kind does not allow
C20_Exclusive ==
    /\ markersExclusive
    /\ (/\ tokens # <<>>
        /\ isMarker(lastToken(tokens).text)
        /\ ~exclusiveShape(lastToken(tokens).text))
       => LET tok == lastToken(tokens)
          IN  /\ pc = "readDone"
              /\ quotes = <<>>
              /\ IF isPull(tok.text) /\ firstMissing(tok.text) # <<>>
                 THEN perr = <<"validating pullquote at offset", tok.start,
                               "cannot be unset", firstMissing(tok.text)>>
                 ELSE \E kind \in kindsOf(tok.text) :
                         perr = <<"validating pullquote at offset", tok.start,
                                  kind, "invalid keys",
                                  keysOf(tok.text) \ allowedKeys(kind)>>

\* a Json marker that carries the flag of Go markers is rejected for it
C20_Witness ==
    /\ pc = "readDone"
    /\ Len(tokens) = 1
    /\ jsonShape(markerText(headJson, {}))
    /\ tokens[1].text = markerText(headJson, {keyIncludeGroup, keyNoReformat})
    /\ quotes = <<>>
    /\ perr = <<"validating pullquote at offset", 0, "jsonquote", "invalid keys",
                {keyIncludeGroup}>>

-----------------------------------------------------------------------------
(* Persistence and reporting of processFiles *)

\* the documents for which a worker was started
started == {fn \in Files : workers[fn].st # "none"}

\* the documents whose processFile has returned an error
failed == {fn \in Files : workers[fn].st \in {"send", "sent", "consumed", "dropped"}
                          /\ workers[fn].res.err # nil}

\* the documents whose result the main loop has received
reported == {fn \in Files : workers[fn].st = "consumed"}

pathIndex(p) == CHOOSE i \in 1..Len(allPaths) : allPaths[i] = p

\* the failing document with the lexicographically smallest path
smallestFailed ==
    CHOOSE f \in failed : \A g \in failed : pathIndex(f) <= pathIndex(g)

\* C13: when documents fail in a run that is not cancelled, the error that
\* processFiles returns names the failing document with the
\* lexicographically smallest path and carries its error, in whatever order
\* the workers deliver their results
C13_SmallestFailure ==
    (pc = "returned" /\ ~ctxDone /\ failed # {})
    => /\ ret.msg \in {"failed", "failed (along with others)"}
       /\ ret.fn = smallestFailed
       /\ ret.err = workers[smallestFailed].res.err

\* three documents fail and the smallest path is reported although its
\* result was not the first to arrive
C13_Witness ==
    /\ pc = "returned"
    /\ ~ctxDone
    /\ failed = Files
    /\ otherErrs = 3
    /\ ret.fn = allPaths[1]
    /\ fns = <<>> /\ fnsNil
    /\ docState[allPaths[1]] = "fail"

\* C14: next to the primary failing document the error of processFiles
\* reports the number of other documents that failed, the failing documents
\* minus one; with one failing document it has no "along with others" part
C14_OthersCount ==
    (pc = "returned" /\ ~ctxDone /\ failed # {})
    => IF Cardinality(failed) = 1
       THEN ret.msg = "failed"
       ELSE /\ ret.msg = "failed (along with others)"
            /\ ret.others = Cardinality(failed) - 1

\* the paths that have left the file channel
received == Files \ {fns[i] : i \in 1..Len(fns)}

\* C15: a failing document neither cancels nor skips the others: while the
\* run is not cancelled every path received from the file channel has its
\* own worker and no worker is cancelled or drops its result; inFlight counts
\* the started workers whose result is not consumed yet, and processFiles
\* returns only when it is 0, with one result consumed per started worker
C15_Isolation ==
    /\ inFlight = Cardinality(started) - Cardinality(reported)
    /\ ~ctxDone =>
          /\ started = received
          /\ \A fn \in Files :
                /\ workers[fn].st # "dropped"
                /\ ~isCanceled(workers[fn].res.err)
    /\ pc = "returned" =>
          /\ inFlight = 0
          /\ started = reported
          /\ ~ctxDone => reported = Files

\* the result of the one failing document arrived first, and the results of
\* the other documents, which differ from their rewritten content, were
\* consumed after it
C15_Witness ==
    /\ pc = "returned"
    /\ ~ctxDone
    /\ Cardinality(failed) = 1
    /\ \A fn \in Files \ failed : docState[fn] = "changed"
    /\ reported = Files
    /\ Len(moves) = 0

\* the documents whose rewritten content differs from their current content
differing == {fn \in Files : docState[fn] = "changed"}

\* C18: in check mode no file is ever renamed; a run that is not cancelled
\* returns the error of a failing document when there is one, otherwise
\* errCheckMode exactly when the rewritten content of a document differs,
\* and nil when none does
C18_CheckMode ==
    checkMode =>
       /\ renamed = {}
       /\ (pc = "returned" /\ ~ctxDone) =>
             IF failed # {}
             THEN ret.msg \in {"failed", "failed (along with others)"}
             ELSE IF differing # {}
             THEN ret.msg = "files changed"
             ELSE ret.msg = "nil"

\* check mode has found two documents to change and has renamed neither
C18_Witness ==
    /\ checkMode
    /\ pc = "returned"
    /\ ~ctxDone
    /\ failed = {}
    /\ Len(moves) = 2
    /\ ret = errCheckMode
    /\ renamed = {}

\* C16: once the context of the run is cancelled, processFiles returns
C16_CancelReturns == ctxDone ~> (pc = "returned")

-----------------------------------------------------------------------------
(* The goroutines of listFiles after a cancellation *)

\* every goroutine of listFiles has ended and both channels are closed
listDone ==
    /\ scanner.pc \in {"off", "done"}
    /\ walker.pc \in {"off", "done"}
    /\ merger.pc = "done"
    /\ merged.closed
    /\ errC.closed

-----------------------------------------------------------------------------
(* C21: keys written in the wrong form *)

\* readPullQuotes has returned for the document of case c
parsedCase(c) == pc = "readDone" /\ doc = arityDoc(c)

\* the error readPullQuotes returns when setOptions reports e for the marker
\* at offset 0
parsingError(e) == <<"parsing pullquote at offset", 0>> \o e

arityError(k) ==
    IF k \in valueKeys THEN <<"requires value", k>>
    ELSE <<"does not take a value", k>>

\* C21: a marker that writes a flag key (includegroup, noreformat) with a
\* value is rejected with "does not take a value", and one that writes a
\* value key (src, start, end, endcount, fmt, lang, gopath, jsonpath) without
\* a value is rejected with "requires value": readPullQuotes returns that
\* error and no marker.
C21_Arity ==
    \A c \in ArityCases :
        parsedCase(c) =>
            /\ perr = parsingError(arityError(c.k))
            /\ quotes = <<>>

\* the keys for which builder.set tests the form: for these the rule holds
testedKeys == {keySrc, keyStart, keyEnd, keyEndCount, keyIncludeGroup, keyNoReformat}

TestedKeysArity ==
    \A c \in ArityCases :
        (parsedCase(c) /\ c.k \in testedKeys) =>
            /\ perr = parsingError(arityError(c.k))
            /\ quotes = <<>>

-----------------------------------------------------------------------------
(* C22: the object path in first position and under its key *)

\* what the claim compares of a parsed marker
descriptor(pq) ==
    [quoteType |-> pq.quoteType, objPath |-> pq.objPath, fmt |-> pq.fmt,
     lang |-> pq.lang, flags |-> pq.flags]

descriptors(pqs) == [i \in 1..Len(pqs) |-> descriptor(pqs[i])]

\* the same marker in the other form
otherForm(c) == [c EXCEPT !.long = ~c.long]

\* C22: a goquote marker that names its object path in first position and
\* the one that names it as gopath=P parse to the same descriptor (kind,
\* objPath, fmt, lang, flags); likewise jsonquote and jsonpath=P.
C22_PathForms ==
    \A c \in PathCases :
        (pc = "readDone" /\ doc = pathDoc(c)) =>
            \E r \in {readPullQuotes(pathDoc(otherForm(c)))} :
                /\ descriptors(quotes) = descriptors(r.pqs)
                /\ (perr = nil) = (r.err = nil)

-----------------------------------------------------------------------------
(* C23: the format and language a marker gets when it names no fmt *)

Example == <<"E", "x", "a", "m", "p", "l", "e">>

\* the symbol an object path names: what follows its "#"
symbolName(p) == Slice(p, Index(p, <<"#">>) + 1, Len(p))

\* readPullQuotes has returned one marker for the positional form of case c,
\* which names no fmt
defaulted(c) ==
    /\ pc = "readDone" /\ perr = nil
    /\ doc = pathDoc(c) /\ ~c.long /\ keyFmt \notin c.ks

\* the contents on which the rendering of a marker is compared
Contents == {[String |-> <<"x">>, Parts |-> <<>>],
             [String |-> <<"x", "\n", "y">>, Parts |-> <<>>],
             [String |-> <<"x">>, Parts |-> <<<<"c">>, <<"o">>>>]}

\* what C23 says but for the Go format: Json markers, Pull markers, and the
\* language of Go markers
defaultsBesidesGoFmt ==
    /\ \A c \in PathCases :
          defaulted(c) =>
              /\ Len(quotes) = 1
              /\ c.tag = tagGoquote => quotes[1].lang = <<"g", "o">>
              /\ c.tag = tagJsonquote =>
                    /\ quotes[1].fmt = fmtCodeFence
                    /\ quotes[1].lang = <<"j", "s", "o", "n">>
    /\ \A ks \in PullCases :
          (pc = "readDone" /\ doc = pullDoc(ks) /\ keyFmt \notin ks) =>
              /\ perr = nil /\ Len(quotes) = 1
              /\ \A e \in Contents :
                    formatQuote(quotes[1], e)
                        = formatQuote([quotes[1] EXCEPT !.fmt = fmtNone], e)

\* C23 as stated: a Go marker with no fmt gets CodeFence and language go, and
\* the Example format if its symbol name contains Example; a Json marker with
\* no fmt gets CodeFence and language json; a Pull marker with no fmt is
\* rendered as with format None.
C23_Literal ==
    /\ defaultsBesidesGoFmt
    /\ \A c \in PathCases :
          (defaulted(c) /\ c.tag = tagGoquote) =>
              quotes[1].fmt = IF Index(symbolName(c.p), Example) # -1
                              THEN fmtExample ELSE fmtCodeFence

\* C23, amended: the same, the Example format being given when the symbol
\* name begins with Example.
C23_Defaults ==
    /\ defaultsBesidesGoFmt
    /\ \A c \in PathCases :
          (defaulted(c) /\ c.tag = tagGoquote) =>
              quotes[1].fmt = IF HasPrefixAt(symbolName(c.p), 0, Example)
                              THEN fmtExample ELSE fmtCodeFence

\* a Go marker whose symbol begins with Example has been given the Example
\* format
C23_Witness ==
    /\ \E c \in PathCases :
          /\ defaulted(c) /\ c.tag = tagGoquote
          /\ HasPrefixAt(symbolName(c.p), 0, Example)
    /\ Len(quotes) = 1 /\ quotes[1].fmt = fmtExample

-----------------------------------------------------------------------------
(* C24: a quoted and escaped word comes back as one token *)

\* C24: for every word over double and single quotes, backslashes, spaces,
\* "=" and letters, the tokenizer run over the word written between double
\* quotes, with a backslash before each double quote and backslash, yields
\* exactly one token, whose text is the word, and no error.
C24_RoundTrip ==
    \A w \in Words :
        (pc = "tokDone" /\ doc = quoted(w)) =>
            /\ Len(tokens) = 1
            /\ tokens[1].text = w
            /\ sc.err = ""

\* a word with a quote, a backslash, a space and "=" has come back
C24_Witness ==
    /\ pc = "tokDone"
    /\ doc = quoted(<<"\"", "\\", " ", "=">>)
    /\ Len(tokens) = 1
    /\ tokens[1].text = <<"\"", "\\", " ", "=">>

-----------------------------------------------------------------------------
(* C25: an attribute text that ends inside a quote or after a backslash *)

\* the builder setOptions returns for the marker of case c
builderOf(c) ==
    Only({setOptions(newPullQuote(tt, 0), openAttrs(c), first.s, tt)
          : first \in {bufioScan("tok", openAttrs(c), newScanner)},
            tt \in {CASE c.head = headPull -> "pull"
                      [] c.head = headGo   -> "go"
                      [] c.head = headJson -> "json"}})

\* the keys of the options that precede the end of case c
keysBefore(c) ==
    c.ks \cup (CASE c.head = headPull -> {}
                 [] c.head = headGo   -> {keyGoPath}
                 [] c.head = headJson -> {keyJSONPath})

\* C25: when the attribute text of a marker ends while a quote is open or
\* right after an unresolved backslash, the tokenizer fails with
\* "unterminated token", setOptions applies no key but those of options
\* that precede the failure, and readPullQuotes returns "parsing pullquote at
\* offset N" around that error, N being the offset of the marker, and no
\* markers.
C25_Unterminated ==
    \A c \in OpenCases :
        (pc = "readDone" /\ doc = openDoc(c)) =>
            /\ perr = <<"parsing pullquote at offset", Len(c.before),
                        errTokUnterminated>>
            /\ quotes = <<>>
            /\ \E b \in {builderOf(c)} :
                  /\ b.err = <<errTokUnterminated>>
                  /\ b.seen \subseteq keysBefore(c)

\* a marker that follows another one and ends in an open quote has made
\* readPullQuotes fail
C25_Witness ==
    /\ pc = "readDone"
    /\ \E c \in OpenCases :
          /\ doc = openDoc(c) /\ c.before = openA /\ c.ks = {keySrc}
          /\ c.tail = <<"l", "a", "n", "g", "=", "\"", "g", " ">>
    /\ quotes = <<>>
    /\ perr = <<"parsing pullquote at offset", Len(openA), errTokUnterminated>>

-----------------------------------------------------------------------------
(* C26: what closes a fenced code block *)

\* no comment the scanner has yielded lies in a fenced block that opens
\* after the first line of the document
skipsFences ==
    \A i \in 1..Len(tokens) :
        \A f \in SpecFences(doc, 0) :
            f[1] > 0 => ~(f[1] <= tokens[i].start /\ tokens[i].end <= f[2])

\* C26: a fence opened by a line that starts with a run of N >= 3 backticks
\* (or tildes) is closed only by a later line that starts with a run of the
\* same byte of length at least N: a shorter run or a run of the other byte
\* does not close it, so the scanner yields no comment that lies between the
\* opening line and that closing line.
C26_FenceClose == skipsFences

\* the same for documents whose fence lines all have three bytes: there a
\* run of the same byte always closes
EqualRunsSkipped ==
    (\A p \in 0..Len(doc) : RunLen(doc, p, BT) <= 3 /\ RunLen(doc, p, "~") <= 3)
        => skipsFences

-----------------------------------------------------------------------------
(* C27: the offsets of the markers readPullQuotes returns *)

\* readPullQuotes has returned its list
returnedQuotes == pc = "readDone" /\ perr = nil

\* applyPullQuotes' readThrough after the first i markers of pqs
readThroughAfter(pqs, i) == IF i = 0 THEN 0 ELSE skipTo(pqs[i])

\* the lengths of the sections applyPullQuotes copies from the document d:
\* one before each marker, and the rest of the document
sectionLengths(pqs, d) ==
    [i \in 1..(Len(pqs) + 1) |->
        IF i <= Len(pqs) THEN pqs[i].startIdx - readThroughAfter(pqs, i - 1)
        ELSE Len(d) - readThroughAfter(pqs, Len(pqs))]

\* the markers are in strictly increasing startIdx order and no section the
\* rewriter copies has a negative length
orderedQuotes ==
    /\ \A i, j \in 1..Len(quotes) :
          i < j => quotes[i].startIdx < quotes[j].startIdx
    /\ \A i \in 1..(Len(quotes) + 1) : sectionLengths(quotes, doc)[i] >= 0

\* C27 as stated: in the list readPullQuotes returns the markers are in
\* strictly increasing startIdx order, each endIdx that is set is strictly
\* greater than its startIdx, and every section the rewriter copies has a
\* non-negative length.
C27_Literal ==
    returnedQuotes =>
        /\ orderedQuotes
        /\ \A i \in 1..Len(quotes) :
              quotes[i].endIdx # idxNoEnd => quotes[i].endIdx > quotes[i].startIdx

\* C27, amended: the same, each endIdx that is set being at least its
\* startIdx (equal when the closing comment follows the opening one at once).
C27_Offsets ==
    returnedQuotes =>
        /\ orderedQuotes
        /\ \A i \in 1..Len(quotes) :
              quotes[i].endIdx # idxNoEnd => quotes[i].endIdx >= quotes[i].startIdx

\* two markers returned, the first closed by the comment that follows it at
\* once, the second one not closed
C27_Witness ==
    /\ returnedQuotes
    /\ Len(quotes) = 2
    /\ quotes[1].endIdx = quotes[1].startIdx
    /\ quotes[2].endIdx = idxNoEnd

-----------------------------------------------------------------------------
(* C28: the end count of a Pull marker *)

\* C28: every Pull marker readPullQuotes returns has an effective end count
\* of at least 1, and a marker that writes endcount=0 or a negative endcount
\* is not returned.
C28_EndCount ==
    (pc = "readDone" /\ perr = nil) =>
        /\ \A i \in 1..Len(quotes) :
              quotes[i].quoteType = "" => endCountRem(quotes[i]) >= 1
        /\ \A v \in EndCounts :
              (doc = endCountDoc(v) /\ Atoi(v).err = nil /\ Atoi(v).n <= 0)
                  => quotes = <<>>

\* the part of it that holds: a marker without endcount, or with a positive
\* one, counts at least one end; one whose endcount is no number is rejected
PositiveEndCounts ==
    /\ (pc = "readDone" /\ perr = nil) =>
          \A i \in 1..Len(quotes) :
              (quotes[i].quoteType = "" /\ quotes[i].endCount >= 0)
                  => endCountRem(quotes[i]) >= 1
    /\ (pc = "readDone" /\ doc = endCountDoc(<<"x">>)) =>
          perr = parsingError(<<"invalid endcount", <<"x">>>>)

-----------------------------------------------------------------------------
(* C29: each marker gets its own content *)

\* the content of one marker resolved on its own: the region of its source
\* for a Pull marker, the extracted object for a Go or Json marker
ownContent(f, pq) ==
    IF pq.quoteType = ""
    THEN expandSrcPullQuotes(f, <<pq>>).results[1]
    ELSE extract(pq).exp

\* the offset at which the span of marker i ends: its closing comment, or
\* the end of its opening comment when it has none
spanEnd(i) ==
    IF quotes[i].endIdx = idxNoEnd THEN quotes[i].startIdx ELSE quotes[i].endIdx

\* C29: for a document that mixes Go, Json and Pull markers over several
\* sources, entry i of the list expandPullQuotes returns is the content of
\* marker i, and applyPullQuotes writes entry i, formatted for marker i, in
\* the span of marker i, the rest of the document being copied around it.
C29_MarkerOrder ==
    /\ (pc = "apply" /\ perr = nil) =>
          /\ Len(expanded) = Len(quotes)
          /\ \A i \in 1..Len(quotes) : expanded[i] = ownContent(fs, quotes[i])
    /\ (pc = "done" /\ perr = nil /\ quotes # <<>>) =>
          out = Flatten([i \in 1..Len(quotes) |->
                    Slice(doc, IF i = 1 THEN 0 ELSE spanEnd(i - 1),
                          quotes[i].startIdx)
                    \o formatQuote(quotes[i], ownContent(fs, quotes[i]))
                    \o (IF quotes[i].endIdx = idxNoEnd
                        THEN endTag(quotes[i]) ELSE <<>>)])
                \o Slice(doc, spanEnd(Len(quotes)), Len(doc))

\* a document with a Go marker, a Pull marker on w/f, a Json marker and a
\* second Pull marker on w/f has been rewritten
C29_Witness ==
    /\ pc = "done" /\ perr = nil
    /\ Len(quotes) = 4
    /\ quotes[1].quoteType = "go" /\ quotes[2].quoteType = ""
    /\ quotes[3].quoteType = "json" /\ quotes[4].quoteType = ""
    /\ quotes[2].src = quotes[4].src
    /\ expanded[2] # expanded[4]
    /\ out # doc

-----------------------------------------------------------------------------
(* C30: the pattern an expansion error names *)

\* the first pull quote of the batch left without a result (0: none)
firstUnresolved ==
    IF \A i \in 1..Len(states) : states[i].hasResult THEN 0
    ELSE CHOOSE i \in 1..Len(states) :
             /\ ~states[i].hasResult
             /\ \A k \in 1..(i - 1) : states[k].hasResult

\* C30: when expandSrcPullQuotes ends with a pull quote whose pattern never
\* matched, the error names the pattern that did not match: the start
\* pattern in "never matched start", the end pattern in "never matched end".
C30_ErrorNames ==
    (pc = "srcDone" /\ firstUnresolved # 0) =>
        \E i \in {firstUnresolved} :
            found.err = IF states[i].hasBuffer
                        THEN <<"never matched end", batch[i].end>>
                        ELSE <<"never matched start", batch[i].start>>

\* the half of it that holds: "never matched end" names the end pattern, and
\* "never matched start" is reported exactly when start never matched
EndErrorNamesEnd ==
    (pc = "srcDone" /\ firstUnresolved # 0) =>
        \E i \in {firstUnresolved} :
            /\ Len(found.err) = 2
            /\ found.err[1] = IF states[i].hasBuffer THEN "never matched end"
                              ELSE "never matched start"
            /\ states[i].hasBuffer => found.err[2] = batch[i].end

-----------------------------------------------------------------------------
(* C31: the delimiter of a code fence *)

\* a line of the content d starts with three backticks
hasTickLine(d) ==
    \E p \in 0..Len(d) : IsLineStart(d, p) /\ HasPrefixAt(d, p, <<BT, BT, BT>>)

\* the first invocation has written the document for its one marker
firstWritten ==
    /\ pc = "done" /\ perr = nil /\ exits = <<>> /\ Len(quotes) = 1

\* what follows the formatted content of the one marker: the closing tag
\* that is added and the rest of the document, or the document from the
\* closing tag on
afterQuote ==
    IF quotes[1].endIdx = idxNoEnd
    THEN endTag(quotes[1]) \o Slice(doc, quotes[1].startIdx, Len(doc))
    ELSE Slice(doc, quotes[1].endIdx, Len(doc))

\* C31: the CodeFence format writes the content between an opening fence of
\* three backticks followed by the language and a closing fence of three
\* backticks; when the content starts with three backticks or has a line
\* that starts with them, both fences are three tildes instead.
C31_CodeFence ==
    (firstWritten /\ quotes[1].fmt = fmtCodeFence) =>
        \E fence \in {IF hasTickLine(expanded[1].String)
                      THEN <<"~", "~", "~">> ELSE <<BT, BT, BT>>} :
            out = Slice(doc, 0, quotes[1].startIdx)
                  \o <<"\n">> \o fence \o quotes[1].lang \o <<"\n">>
                  \o expanded[1].String
                  \o <<"\n">> \o fence \o <<"\n">>
                  \o afterQuote

\* a content with a line of three backticks has been written between tildes
C31_Witness ==
    /\ firstWritten /\ quotes[1].fmt = fmtCodeFence
    /\ quotes[1].lang = <<"m", "d">>
    /\ expanded[1].String = <<"x", "\n", BT, BT, BT>>
    /\ Index(out, <<"\n", "~", "~", "~", "m", "d", "\n">>) # -1

-----------------------------------------------------------------------------
(* C32: the Example format *)

\* the block the CodeFence format writes for the text d with language lang
fencedBlock(d, lang) ==
    Only({<<"\n">> \o fence \o lang \o <<"\n">> \o d \o <<"\n">> \o fence \o <<"\n">>
          : fence \in {IF hasTickLine(d) THEN <<"~", "~", "~">> ELSE <<BT, BT, BT>>}})

\* what the Example format writes for the one marker, the two parts being
\* announced by the labels code and output
exampleWritten(code, output) ==
    out = Slice(doc, 0, quotes[1].startIdx)
          \o (IF Len(expanded[1].Parts) = 2
              THEN code \o fencedBlock(expanded[1].Parts[1], quotes[1].lang)
                   \o output \o fencedBlock(expanded[1].Parts[2], <<>>)
              ELSE fencedBlock(expanded[1].String, quotes[1].lang))
          \o afterQuote

\* C32 as stated: with exactly two parts the rewriter writes "Code:", part 1
\* fenced with the marker's language, "Output:", and part 2 fenced with no
\* language; otherwise it writes what the CodeFence format writes for the
\* primary string.
C32_Literal ==
    (firstWritten /\ quotes[1].fmt = fmtExample) =>
        exampleWritten(<<"\n", "C", "o", "d", "e", ":">>,
                       <<"O", "u", "t", "p", "u", "t", ":">>)

\* C32, amended: the same, the labels being written in bold, as
\* "**Code**:" after a newline and "**Output**:".
C32_Example ==
    (firstWritten /\ quotes[1].fmt = fmtExample) =>
        exampleWritten(<<"\n", "*", "*", "C", "o", "d", "e", "*", "*", ":">>,
                       <<"*", "*", "O", "u", "t", "p", "u", "t", "*", "*", ":">>)

\* an example with two parts, the first one holding a backtick fence, has
\* been written
C32_Witness ==
    /\ firstWritten /\ quotes[1].fmt = fmtExample
    /\ expanded[1].Parts = <<<<BT, BT, BT>>, <<"y">>>>
    /\ Index(out, <<"*", "*", "O", "u", "t", "p", "u", "t", "*", "*", ":">>) # -1

-----------------------------------------------------------------------------
(* C33 and C34: a fence on the first line, and a terminator without opener *)

\* C33: when the first line of the document opens a fenced code block, the
\* scanner yields no comment that lies inside that block.
C33_FirstLineFence ==
    OpensFence(doc, 0) =>
        \A i \in 1..Len(tokens) :
            ~(tokens[i].start >= 0 /\ tokens[i].end <= FenceEnd(doc, 0))

\* the first "-->" of the document has no "<!--" before it
strayTerminator(d) ==
    \E c \in 0..Len(d) :
        /\ HasPrefixAt(d, c, commentClose)
        /\ \A q \in 0..(c - 1) : ~HasPrefixAt(d, q, commentOpen)

\* C34: when the document holds a "-->" that no "<!--" precedes, the scan
\* still yields every complete comment outside fenced blocks.
C34_StrayTerminator ==
    (pc = "scanned" /\ strayTerminator(doc)) =>
        \A k \in 1..Len(SpecComments(doc, 0)) :
            \E i \in 1..Len(tokens) :
                <<tokens[i].start, tokens[i].end>> = SpecComments(doc, 0)[k]

-----------------------------------------------------------------------------
(* C35: the comments yielded do not depend on the chunks of the reader *)

RECURSIVE scanAll(_, _)
\* the comments the scanner yields from state s on when every Read delivers
\* all the bytes that are left
scanAll(d, s) == Only({
    IF r.ok
    THEN <<[start |-> r.s.start, end |-> r.s.end, text |-> r.text]>>
         \o scanAll(d, r.s)
    ELSE <<>>
    : r \in {htmlScan(d, s)}})

\* C35: when the scan ends, the comments yielded, texts and offsets, are
\* those yielded when the reader delivers the document in one piece,
\* whatever chunks it delivered.
C35_Chunking ==
    pc = "chunked" => tokens = scanAll(doc, newScanner)

-----------------------------------------------------------------------------
(* C36: the block the CodeFence format writes is one fence on the next scan *)

\* the markers of the model whose format is CodeFence
codeFenceMarkers ==
    {goMarker(pathGoF, <<>>),
     goMarker(pathGoF, <<" ", "l", "a", "n", "g", "=", "m", "d">>),
     goMarker(pathGoF, <<" ", "f", "m", "t", "=", "c", "o", "d", "e", "f", "e", "n", "c", "e",
                         " ", "l", "a", "n", "g", "=", "m", "d">>)}

\* the second invocation has read the document the first one wrote for a
\* marker of format CodeFence
rescanned ==
    /\ Len(exits) = 1 /\ exits[1].err = nil /\ exits[1].updated = 1
    /\ pc = "expand" \/ (pc = "done" /\ expanded = <<>>)
    /\ \E m \in codeFenceMarkers : HasPrefixAt(doc, 2, m)

\* C36: when the document written with the CodeFence format is read again,
\* no comment of the inserted content is live: the reading yields the one
\* marker, closed by its own closing tag, which is the last one of the
\* document.
C36_Opaque ==
    rescanned =>
        /\ perr = nil
        /\ Len(quotes) = 1
        /\ quotes[1].endIdx = LastIndex(doc, closeG)

-----------------------------------------------------------------------------
(* C37: a run whose context is cancelled renames nothing *)

\* the workers whose processFile returned the error of the cancelled
\* context: the context was cancelled before they had a successful result
cancelledWorkers == {fn \in Files : isCanceled(workers[fn].res.err)}

-----------------------------------------------------------------------------
(* C38: listFiles emits each path once *)

\* a step that sends the path p on the returned channel
sends(p) ==
    /\ Len(merged'.buf) = Len(merged.buf) + 1
    /\ p = merged'.buf[Len(merged'.buf)]

\* C38: seen holds the paths sent so far on the returned channel, and every
\* path sent is absolute, clean, and not among them: no path is sent twice,
\* whatever names the arguments, the standard input and the directory walk
\* give to the files.
C38_NoDuplicates ==
    [][IF Len(merged'.buf) > Len(merged.buf)
       THEN \E p \in {merged'.buf[Len(merged'.buf)]} :
               /\ sends(p)
               /\ IsAbs(p) /\ Clean(p) = p
               /\ p \notin seenPaths
               /\ seenPaths' = seenPaths \cup {p}
       ELSE seenPaths' = seenPaths]_vars

\* without cancellation, two arguments and the first file of the walk have
\* been submitted, and only /w/a was sent, once
C38_Witness ==
    /\ ~lctxDone
    /\ merged.cap = 3 /\ args = <<>>
    /\ walker.pc = "send" /\ walker.val = absB
    /\ merger.pc = "loop"
    /\ merged.buf = <<absA>>

-----------------------------------------------------------------------------
(* C39: the options a marker names are kept by validate *)

\* the marker of the document carries the option written as opt
names(opt) == Index(doc, <<" ">> \o opt \o <<" ">>) # -1

\* C39: the marker read has the lang and the fmt its text names: the
\* defaults of its kind replace neither.
C39_ExplicitWins ==
    (pc = "expand" /\ Len(quotes) = 1) =>
        /\ names(<<"l", "a", "n", "g", "=", "m", "d">>)
              => quotes[1].lang = <<"m", "d">>
        /\ \A f \in validFmts :
              names(<<"f", "m", "t", "=">> \o f) => quotes[1].fmt = f

-----------------------------------------------------------------------------
(* C40: an object path without "#" is an error of the document *)

\* the index expression parts[1] was evaluated on a slice of one element
panicked == perr = <<"expandedPullQuotes", "panic: index out of range">>

\* C40: processFile ends with a result or an error value for every
\* document; no object path makes an expander index out of range.
C40_NoCrash == pc = "done" => ~panicked

-----------------------------------------------------------------------------
(* The region a pull quote names, stated over the lines of the file *)

RECURSIVE LinesOf(_)
\* the lines of d, each with its terminator
LinesOf(d) ==
    IF d = <<>> THEN <<>>
    ELSE LET i == Index(d, <<"\n">>)
         IN  IF i = -1 THEN <<d>>
             ELSE <<Slice(d, 0, i + 1)>> \o LinesOf(Slice(d, i + 1, Len(d)))

\* t without its trailing line terminators
Untrailed(t) ==
    LET n == CHOOSE n \in 0..Len(t) :
                 /\ n = 0 \/ t[n] \notin {"\r", "\n"}
                 /\ \A k \in (n + 1)..Len(t) : t[k] \in {"\r", "\n"}
    IN  SubSeq(t, 1, n)

\* the least member of a non-empty set of numbers
Least(S) == CHOOSE k \in S : \A j \in S : k <= j

\* the end count in effect: 1 when unset
EffectiveEndCount(pq) == IF pq.endCount = 0 THEN 1 ELSE pq.endCount

\* The region of pull quote pq in the file d.
\*   lines: the lines of d;  first: the first line matching start (0: none);
\*   ends: the lines at or after it that match end, the start line counting
Region(d, pq) ==
    LET lines  == LinesOf(d)
        starts == {k \in 1..Len(lines) : MatchString(pq.start, lines[k])}
        first  == IF starts = {} THEN 0 ELSE Least(starts)
    IN  [lines |-> lines,
         first |-> first,
         ends  |-> IF first = 0 THEN {}
                   ELSE {k \in first..Len(lines) : MatchString(pq.end, lines[k])}]

\* the n-th line of the region's end lines (0: there are fewer than n)
NthEnd(rg, n) ==
    IF n < 1 \/ Cardinality(rg.ends) < n THEN 0
    ELSE CHOOSE k \in rg.ends : Cardinality({j \in rg.ends : j <= k}) = n

\* the lines from the start line to line e, joined, trailing terminators cut
RegionUpTo(rg, e) == Untrailed(Flatten(SubSeq(rg.lines, rg.first, e)))

RECURSIVE Reverse(_)
Reverse(q) == IF q = <<>> THEN <<>> ELSE Reverse(Tail(q)) \o <<Head(q)>>

\* C5: when expandSrcPullQuotes returns, it has resolved every pull quote of
\* the batch exactly when each one has a region in the file (a first line
\* matching start and an N-th line matching end at or after it, the start line
\* counting), and each result is that region: its lines joined with their own
\* terminators, the trailing terminators trimmed.
C5_PullRegion ==
    pc = "srcDone" =>
        LET rg == [i \in 1..Len(batch) |-> Region(file, batch[i])]
            e  == [i \in 1..Len(batch) |-> NthEnd(rg[i], EffectiveEndCount(batch[i]))]
        IN  /\ found.err = nil <=> \A i \in 1..Len(batch) : e[i] # 0
            /\ found.err = nil =>
                  /\ Len(found.results) = Len(batch)
                  /\ \A i \in 1..Len(batch) :
                        found.results[i] = RegionUpTo(rg[i], e[i])

\* a line that matches both start and end is a one-line region, and its
\* "\r\n" is trimmed
C5_Witness ==
    /\ pc = "srcDone"
    /\ found.err = nil
    /\ batch = <<[src |-> <<"f">>, start |-> <<"b">>, end |-> <<"b">>, endCount |-> 0]>>
    /\ file = <<"x", "\n", "b", "\r", "\n", "b", "\n">>
    /\ found.results = <<(<<"b">>)>>

\* C6: when at least two lines at or after the start line match the end
\* pattern, endcount=2 ends the region at the second of them and endcount
\* unset or 1 at the first; a batch of one such marker resolves.
C6_EndCount ==
    pc = "srcDone" =>
        \A i \in 1..Len(batch) :
            LET rg == Region(file, batch[i])
            IN  (Cardinality(rg.ends) >= 2 /\ batch[i].endCount \in {0, 1, 2}) =>
                    /\ Len(batch) = 1 => found.err = nil
                    /\ (found.err = nil /\ batch[i].endCount = 2) =>
                          found.results[i] = RegionUpTo(rg, NthEnd(rg, 2))
                    /\ (found.err = nil /\ batch[i].endCount \in {0, 1}) =>
                          found.results[i] = RegionUpTo(rg, NthEnd(rg, 1))

\* the same patterns over the same file with endcount 2 and unset end at
\* different lines
C6_Witness ==
    /\ pc = "srcDone"
    /\ found.err = nil
    /\ Len(batch) = 2
    /\ batch[1].start = batch[2].start /\ batch[1].end = batch[2].end
    /\ batch[1].endCount = 2 /\ batch[2].endCount = 0
    /\ Len(found.results[1]) > Len(found.results[2])

\* C7: a batch over one file resolves exactly when each of its pull quotes
\* resolves alone against that file, each result is the one the pull quote
\* gets alone, and the batch in the opposite order gets the results in the
\* opposite order.
C7_Independent ==
    pc = "srcDone" =>
        LET alone    == [i \in 1..Len(batch) |-> expandSrc(file, <<batch[i]>>)]
            opposite == expandSrc(file, Reverse(batch))
        IN  /\ found.err = nil <=> \A i \in 1..Len(batch) : alone[i].err = nil
            /\ found.err = nil =>
                  /\ \A i \in 1..Len(batch) :
                        found.results[i] = alone[i].results[1]
                  /\ opposite.err = nil
                  /\ opposite.results = Reverse(found.results)

\* two pull quotes whose regions share a line resolve differently
C7_Witness ==
    /\ pc = "srcDone"
    /\ found.err = nil
    /\ Len(batch) = 2
    /\ found.results[1] = <<"a", "\n", "b">>
    /\ found.results[2] = <<"b", "\n", "a", "b">>

-----------------------------------------------------------------------------
(* The scanner against the comments of the document *)

\* C3: when the scan of a document ends, the comments yielded are exactly the
\* complete comments outside fenced code blocks, each once and in document
\* order, and the offsets reported with each are those of its text in the
\* document.
C3_ScannerExact ==
    pc = "scanned" =>
        /\ Offsets(tokens) = SpecComments(doc, 0)
        /\ \A i \in 1..Len(tokens) :
              Slice(doc, tokens[i].start, tokens[i].end) = tokens[i].text

\* C2: no comment the scanner yields lies inside a fenced code block of the
\* document.
C2_FenceSkip ==
    \A i \in 1..Len(tokens) :
        \A f \in SpecFences(doc, 0) :
            ~(f[1] <= tokens[i].start /\ tokens[i].end <= f[2])

-----------------------------------------------------------------------------
(* The run over one document *)

\* the pull quotes that expandSrcPullQuotes resolves
Pulls(pqs) == {i \in 1..Len(pqs) : pqs[i].quoteType = ""}

\* processFile has passed expandPullQuotes in this invocation
Resolved == pc \in {"apply", "done", "exit"} /\ quotes # <<>>

\* processFile has written the temp file in this invocation
Rewritten == pc = "done" /\ perr = nil /\ quotes # <<>>

\* C1: when the first invocation succeeds, the second one on what it left
\* (same sources) succeeds and updates nothing: its output is the first
\* output, byte for byte.
C1_Idempotent ==
    (Len(exits) = 2 /\ exits[1].err = nil) =>
        /\ exits[2].err = nil
        /\ exits[2].updated = 0

\* C4: when every pull quote is closed, startIdx is the end of the opening
\* comment and endIdx the start of the closing one, in document order, and
\* the bytes written are doc[0:start1], then for each pull quote its formatted
\* content followed by the document from its endIdx to the next startIdx (to
\* the end for the last one); the same bytes are written for the document with
\* the old content between the tags cut out.
C4_Frame ==
    (Rewritten /\ \A i \in 1..Len(quotes) : quotes[i].endIdx # idxNoEnd) =>
        LET n == Len(quotes)
            nextStart(i) == IF i < n THEN quotes[i + 1].startIdx ELSE Len(doc)
            cut(i) == quotes[i].endIdx - quotes[i].startIdx
            RECURSIVE cutBefore(_)
            cutBefore(i) == IF i = 0 THEN 0 ELSE cutBefore(i - 1) + cut(i)
            emptied == Slice(doc, 0, quotes[1].startIdx)
                       \o Flatten([i \in 1..n |->
                                      Slice(doc, quotes[i].endIdx, nextStart(i))])
            shifted == [i \in 1..n |->
                           [quotes[i] EXCEPT !.startIdx = @ - cutBefore(i - 1),
                                             !.endIdx = quotes[i].startIdx - cutBefore(i - 1)]]
        IN  /\ \A i \in 1..n :
                  /\ Slice(doc, quotes[i].startIdx - 3, quotes[i].startIdx) = commentClose
                  /\ HasPrefixAt(doc, quotes[i].endIdx, commentOpen)
                  /\ quotes[i].startIdx <= quotes[i].endIdx
                  /\ quotes[i].endIdx < nextStart(i)
            /\ out = Slice(doc, 0, quotes[1].startIdx)
                     \o Flatten([i \in 1..n |->
                                    formatQuote(quotes[i], expanded[i])
                                    \o Slice(doc, quotes[i].endIdx, nextStart(i))])
            /\ out = applyPullQuotes(shifted, expanded, emptied)

\* the second invocation rewrites two closed pull quotes that both hold old
\* content
C4_Witness ==
    /\ Rewritten
    /\ Len(exits) = 1
    /\ Len(quotes) = 2
    /\ \A i \in 1..2 : quotes[i].endIdx # idxNoEnd /\ quotes[i].endIdx > quotes[i].startIdx
    /\ quotes[1].src # quotes[2].src

\* C8: expandPullQuotes opens no path twice, opens only sources of pull
\* quotes, and when it succeeds it has opened the source of every pull quote.
C8_SingleScan ==
    /\ \A i, j \in 1..Len(opened) : i # j => opened[i] # opened[j]
    /\ Resolved =>
          LET srcs == {quotes[i].src : i \in Pulls(quotes)}
              seen == {opened[i] : i \in 1..Len(opened)}
          IN  /\ seen \subseteq srcs
              /\ perr = nil => seen = srcs

\* two pull quotes of one source with a Go marker and a pull quote of another
\* source between them: each source was opened once
C8_Witness ==
    /\ pc = "apply"
    /\ Len(quotes) = 4
    /\ quotes[1].src = pathF /\ quotes[4].src = pathF
    /\ quotes[2].quoteType = "go"
    /\ quotes[3].src = pathG
    /\ opened = <<pathF, pathG>>

\* C9: when some pull quote has no region in its source (no line matches its
\* start, or fewer than endcount lines at or after the start line match its
\* end), processFile fails, expandPullQuotes has returned no results, no temp
\* file is written and the invocation updates nothing; a "never matched start"
\* error is that of a pull quote whose start matched no line, a "never matched
\* end" error that of one whose start matched; and one of the two is the
\* error whenever every source could be opened.
C9_Unmatched ==
    Resolved =>
        LET there   == {i \in Pulls(quotes) : quotes[i].src \in DOMAIN fs}
            rg      == [i \in there |-> Region(fs[quotes[i].src], quotes[i])]
            bad     == {i \in there :
                           NthEnd(rg[i], EffectiveEndCount(quotes[i])) = 0}
            noStart == {i \in bad : rg[i].first = 0}
        IN  /\ bad # {} =>
                  /\ perr # nil
                  /\ expanded = <<>> /\ out = <<>> /\ tempFn = ""
                  /\ pc = "exit" =>
                        exits[Len(exits)] = [err |-> perr, updated |-> 0]
            /\ (bad # {} /\ there = Pulls(quotes)) =>
                  perr[2] \in {"never matched start", "never matched end"}
            /\ (perr # nil /\ perr[2] = "never matched start") => noStart # {}
            /\ (perr # nil /\ perr[2] = "never matched end") => bad \ noStart # {}
            /\ (perr # nil /\ perr[2] \in {"never matched start", "never matched end"}) =>
                  bad # {}

\* the pull quote of w/g resolves and the one of w/f finds its start but no
\* end: the document fails with "never matched end" and is left alone
C9_Witness ==
    /\ pc = "exit"
    /\ Len(quotes) = 2
    /\ quotes[1].src = pathG /\ quotes[2].src = pathF
    /\ fs[pathG] = <<"a", "\n">>
    /\ pathF \in DOMAIN fs /\ fs[pathF] = <<"a", "\n">>
    /\ perr = <<"expandedPullQuotes", "never matched end", <<"b">>>>
    /\ exits = <<[err |-> perr, updated |-> 0]>>

\* C10: a pull quote left open at the end of the document is no error; the
\* rewrite puts the closing tag of its kind right after its formatted content,
\* and reading the output again finds the same pull quotes, that one closed
\* by the tag.
C10_AutoClose ==
    Rewritten =>
        \A i \in 1..Len(quotes) :
            quotes[i].endIdx = idxNoEnd =>
                \E re \in {readPullQuotes(out)} :
                    /\ re.err = nil
                    /\ Len(re.pqs) = Len(quotes)
                    /\ re.pqs[i].endIdx =
                          re.pqs[i].startIdx + Len(formatQuote(quotes[i], expanded[i]))
                    /\ HasPrefixAt(out, re.pqs[i].endIdx, endTag(quotes[i]))

=============================================================================
